---------------------------- MODULE Spec2Model ----------------------------
(***************************************************************************)
(* A model of the compliance pipeline's edge functions:                    *)
(*   preprocess-chunks  (the chunker),                                     *)
(*   rule-based-checks  (the lexical matcher),                             *)
(*   semantic-matching  (best-match scan and status determination),        *)
(*   score-compliance   (weights, points, overall score).                  *)
(* Every handler is a small state machine: its request is chosen in the    *)
(* initial state, its loop runs one iteration per step, and its response   *)
(* is the last step.  Each handler has a specification of its own.         *)
(***************************************************************************)
EXTENDS Integers, Sequences, FiniteSets, TLC

VARIABLES
  \* preprocess-chunks
  raw_text, document_type, cleanedText, chunks, startPos, chunkId,
  chunkPc, chunkResponse,
  \* the chunker's earlier runs, kept by its caller
  previousRuns,
  \* rule-based-checks
  lexDocument, lexChunks, lexIndex, allMatches, lexPc, lexResponse,
  \* semantic-matching
  apiKey, absent, matchChunks, rule_matches, chunkEmbeddings,
  requirementEmbeddings, reqIndex, similarity, matches, matchPc,
  matchResponse,
  \* the status determination on its own
  clsScore, clsHasRuleMatch, clsStatus, clsPc,
  \* score-compliance
  scoreAbsent, semantic_matches, totalScore, maxScore, scoredRequirements,
  scorePc, scoreResponse,
  \* cosineSimilarity on its own
  simA, simB, simResult, simPc,
  \* two concurrent invocations of one stage
  concStage, invocations,
  \* Dashboard
  isAnalyzing, results, dashPc, dashCalls,
  \* Index
  idxInputs, isLoading, result, idxPc, idxRequests, idxOutcome

chunkVars == << raw_text, document_type, cleanedText, chunks, startPos,
                chunkId, chunkPc, chunkResponse >>

matchVars == << apiKey, absent, matchChunks, rule_matches, chunkEmbeddings,
                requirementEmbeddings, reqIndex, similarity, matches,
                matchPc, matchResponse >>

clsVars == << clsScore, clsHasRuleMatch, clsStatus, clsPc >>

scoreVars == << scoreAbsent, semantic_matches, totalScore, maxScore,
                scoredRequirements, scorePc, scoreResponse >>

callerVars == << previousRuns >>

lexVars == << lexDocument, lexChunks, lexIndex, allMatches, lexPc,
              lexResponse >>

simVars == << simA, simB, simResult, simPc >>

concVars == << concStage, invocations >>

dashVars == << isAnalyzing, results, dashPc, dashCalls >>

idxVars == << idxInputs, isLoading, result, idxPc, idxRequests, idxOutcome >>

\* The state outside the four edge functions.
restVars == << simVars, concVars, dashVars, idxVars >>
edgeVars == << chunkVars, callerVars, lexVars, matchVars, clsVars, scoreVars >>

vars == << edgeVars, restVars >>

\* What a step of one handler leaves alone: the other handlers.
notChunk ==
  << callerVars, lexVars, matchVars, clsVars, scoreVars, restVars >>
notLex ==
  << chunkVars, callerVars, matchVars, clsVars, scoreVars, restVars >>
notMatch ==
  << chunkVars, callerVars, lexVars, clsVars, scoreVars, restVars >>
notCls ==
  << chunkVars, callerVars, lexVars, matchVars, scoreVars, restVars >>
notScore ==
  << chunkVars, callerVars, lexVars, matchVars, clsVars, restVars >>
notSim == << edgeVars, concVars, dashVars, idxVars >>
notConc == << edgeVars, simVars, dashVars, idxVars >>
notDash == << edgeVars, simVars, concVars, idxVars >>
notIdx == << edgeVars, simVars, concVars, dashVars >>

\* A value a request's JSON body may leave out (null / undefined): a
\* sequence no string equals, since characters are one-character strings.
Null == << "<null>" >>
\* No response yet.
NoResponse == [status |-> 0]

(***************************************************************************)
(* preprocess-chunks                                                       *)
(***************************************************************************)

\* Bounds of the chunker's inputs.
MaxLen == 1301
MaxShort == 5

chunkSize == 500
overlap == 100

\* Characters are one-character strings.  The classes \s and \n of the two
\* patterns.
SpaceClass == {" ", "\n", "\t"}
NewlineClass == {"\n"}
IsSpace(c) == c \in SpaceClass

\* Mutant: the pattern is /XX/g, so only pairs of characters of the class
\* become one rep and a single one stays as it is.
ReplaceRunsPairs(s, class, rep) ==
  LET RECURSIVE Offset(_)
      \* The number of characters of the class right before position i.
      Offset(i) == IF i = 1 \/ s[i-1] \notin class THEN 0
                   ELSE 1 + Offset(i - 1)
      Second(i) == s[i] \in class /\ Offset(i) % 2 = 1
      First(i) == s[i] \in class /\ ~Second(i) /\
                  i < Len(s) /\ s[i+1] \in class
      marked == [i \in 1..Len(s) |->
                   [c |-> IF First(i) THEN rep ELSE s[i],
                    keep |-> ~Second(i)]]
      kept == SelectSeq(marked, LAMBDA m : m.keep)
  IN  [i \in 1..Len(kept) |-> kept[i].c]

\* String.prototype.replace(/X+/g, rep): every maximal run of characters of
\* the class becomes one rep.
ReplaceRuns(s, class, rep) ==
  LET marked == [i \in 1..Len(s) |->
                   [c |-> s[i],
                    keep |-> s[i] \notin class \/ i = 1 \/ s[i-1] \notin class]]
      kept == SelectSeq(marked, LAMBDA m : m.keep)
  IN  [i \in 1..Len(kept) |-> IF kept[i].c \in class THEN rep ELSE kept[i].c]

\* Mutant: the text is not trimmed.
TrimNone(s) == s

\* String.prototype.trim()
Trim(s) ==
  IF \A i \in 1..Len(s) : IsSpace(s[i]) THEN << >>
  ELSE LET first == CHOOSE i \in 1..Len(s) :
                      ~IsSpace(s[i]) /\ \A j \in 1..(i-1) : IsSpace(s[j])
           last == CHOOSE i \in 1..Len(s) :
                      ~IsSpace(s[i]) /\ \A j \in (i+1)..Len(s) : IsSpace(s[j])
       IN  SubSeq(s, first, last)

\* raw_text.replace(/\s+/g, " ").replace(/\n+/g, "\n").trim()
CleanText(s) ==
  Trim(ReplaceRuns(ReplaceRuns(s, SpaceClass, " "), NewlineClass, "\n"))

Min(a, b) == IF a < b THEN a ELSE b

\* cleanedText.substring(from, to), 0-based and end-exclusive.
Substring(s, from, to) == SubSeq(s, from + 1, to)

\* Mutant: the window is cut at the step, so chunks no longer overlap.
MakeChunkNoOverlap(text, docType, pos, n) ==
  LET endPos == Min(pos + chunkSize - overlap, Len(text))
  IN  [id |-> << docType, "_chunk_", n >>,
       text |-> Substring(text, pos, endPos),
       start_char |-> pos,
       end_char |-> endPos,
       document_type |-> docType]

\* Mutant: the id is built from the start position, not the sequence index.
MakeChunkIdFromStart(text, docType, pos, n) ==
  LET endPos == Min(pos + chunkSize, Len(text))
  IN  [id |-> << docType, "_chunk_", pos >>,
       text |-> Substring(text, pos, endPos),
       start_char |-> pos,
       end_char |-> endPos,
       document_type |-> docType]

\* The chunk pushed by one iteration of the loop.
MakeChunk(text, docType, pos, n) ==
  LET endPos == Min(pos + chunkSize, Len(text))
  IN  [id |-> << docType, "_chunk_", n >>,
       text |-> Substring(text, pos, endPos),
       start_char |-> pos,
       end_char |-> endPos,
       document_type |-> docType]

\* Mutant: the overlap is added to the step instead of subtracted.
NextStartGap(pos) == pos + (chunkSize + overlap)
\* Mutant: the step is the whole window.
NextStartWindow(pos) == pos + chunkSize

\* Mutant: the overlap is as large as the window.
NextStartStuck(pos) == pos + (chunkSize - chunkSize)

\* startPos += chunkSize - overlap
NextStart(pos) == pos + (chunkSize - overlap)

\* The request bodies the model tries.
Alphabet == {"a", " ", "\n"}
RECURSIVE StringsUpTo(_)
StringsUpTo(n) ==
  IF n = 0 THEN { << >> }
  ELSE LET shorter == StringsUpTo(n - 1)
       IN  shorter \cup { Append(s, c) : s \in shorter, c \in Alphabet }

\* A text of n characters that is already clean when n is not a multiple of 7.
WordText(n) == [i \in 1..n |-> IF i % 7 = 0 THEN " " ELSE "a"]
\* A text with leading, trailing and doubled whitespace around n characters.
DirtyText(n) ==
  << " ", "\n" >> \o
  [i \in 1..n |-> IF i % 7 = 0 THEN "\n" ELSE IF i % 7 = 1 THEN " " ELSE "a"]
  \o << "\t" >>

RawTexts ==
  {Null} \cup StringsUpTo(MaxShort)
         \cup { WordText(n) : n \in 1..MaxLen }
         \cup { DirtyText(n) : n \in 1..MaxLen }

DocumentTypes == {"business_plan"}

ChunkInit ==
  /\ raw_text \in RawTexts
  /\ document_type \in DocumentTypes
  /\ cleanedText = << >>
  /\ chunks = << >>
  /\ startPos = 0
  /\ chunkId = 0
  /\ chunkPc = "start"
  /\ chunkResponse = NoResponse

\* Mutant: a missing raw_text is read as the empty text.
ChunkerCleanLenient ==
  /\ chunkPc = "start"
  /\ cleanedText' = (IF raw_text = Null THEN << >> ELSE CleanText(raw_text))
  /\ chunks' = << >>
  /\ startPos' = 0
  /\ chunkId' = 0
  /\ chunkPc' = "loop"
  /\ UNCHANGED << raw_text, document_type, chunkResponse >>
  /\ UNCHANGED notChunk

\* Lines 22-38: read the body, clean the text.  raw_text.length throws a
\* TypeError on a missing raw_text, and the catch block answers 500.
ChunkerClean ==
  /\ chunkPc = "start"
  /\ IF raw_text = Null
       THEN /\ chunkPc' = "done"
            /\ chunkResponse' = [status |-> 500, error |-> "TypeError"]
            /\ UNCHANGED << cleanedText, chunks, startPos, chunkId >>
       ELSE /\ cleanedText' = CleanText(raw_text)
            /\ chunks' = << >>
            /\ startPos' = 0
            /\ chunkId' = 0
            /\ chunkPc' = "loop"
            /\ UNCHANGED chunkResponse
  /\ UNCHANGED << raw_text, document_type >>
  /\ UNCHANGED notChunk

\* Lines 40-54: one iteration of the while loop.
ChunkerLoop ==
  /\ chunkPc = "loop"
  /\ startPos < Len(cleanedText)
  /\ chunks' = Append(chunks,
                      MakeChunk(cleanedText, document_type, startPos, chunkId))
  /\ startPos' = NextStart(startPos)
  /\ chunkId' = chunkId + 1
  /\ UNCHANGED << raw_text, document_type, cleanedText, chunkPc, chunkResponse >>
  /\ UNCHANGED notChunk

\* Lines 56-65: the loop is over, answer with the chunks.
ChunkerRespond ==
  /\ chunkPc = "loop"
  /\ ~(startPos < Len(cleanedText))
  /\ chunkResponse' = [status |-> 200,
                       document_type |-> document_type,
                       chunks |-> chunks,
                       total_chunks |-> Len(chunks)]
  /\ chunkPc' = "done"
  /\ UNCHANGED << raw_text, document_type, cleanedText, chunks, startPos, chunkId >>
  /\ UNCHANGED notChunk

ChunkNext == ChunkerClean \/ ChunkerLoop \/ ChunkerRespond

\* A second request to the chunker: its raw_text is the cleaned text of the
\* run that has just answered, its document_type is the same.  The caller
\* keeps the first run's request and response.
ChunkerResubmit ==
  /\ chunkPc = "done"
  /\ chunkResponse.status = 200
  /\ previousRuns = << >>
  /\ previousRuns' = << [raw_text |-> raw_text, response |-> chunkResponse] >>
  /\ raw_text' = cleanedText
  /\ chunkPc' = "start"
  /\ chunkResponse' = NoResponse
  /\ UNCHANGED << document_type, cleanedText, chunks, startPos, chunkId >>
  /\ UNCHANGED << lexVars, matchVars, clsVars, scoreVars, restVars >>

RechunkNext == ChunkNext \/ ChunkerResubmit

(***************************************************************************)
(* semantic-matching                                                       *)
(***************************************************************************)

\* Bounds of the matcher's inputs.  EmbeddingDim stands for the 384
\* components of an embedding, scaled down.
MaxChunks == 2
EmbeddingDim == 2

\* substring(0, 200) of the matched chunk's text.
previewLength == 200

\* The empty string.
EmptyString == << >>

\* Object.keys(QCB_REQUIREMENTS), in insertion order.
requirementIds ==
  << "licensing_category", "minimum_capital_psp", "minimum_capital_p2p",
     "minimum_capital_wealth", "data_residency", "aml_policy",
     "kyc_documentation", "cdd_enhanced", "compliance_officer",
     "key_personnel" >>

\* Object.values(QCB_REQUIREMENTS): the descriptions, as character codes.
\* The descriptions are cut to one or two characters over the codes 1 and 3;
\* like the real ones they hold no NUL and some are shorter than an embedding.
requirementTexts ==
  << << 1 >>, << 1, 1 >>, << 1, 3 >>, << 3, 1 >>, << 3 >>,
     << 1, 1 >>, << 3, 1 >>, << 1 >>, << 1, 3 >>, << 3, 3 >> >>

\* A number n / sqrt(d2), exact: cosines and decimal thresholds are both of
\* this form.  d2 = 0 is a division by zero: NaN when n = 0.
Real(n, d2) == [num |-> n, den2 |-> d2]
Zero == Real(0, 1)
IsNaN(x) == x.den2 = 0 /\ x.num = 0
IsFinite(x) == x.den2 > 0

\* x > y on numbers; false when either side is NaN.
Greater(x, y) ==
  /\ IsFinite(x) /\ IsFinite(y)
  /\ IF x.num >= 0
       THEN IF y.num >= 0
              THEN x.num * x.num * y.den2 > y.num * y.num * x.den2
              ELSE TRUE
       ELSE IF y.num >= 0
              THEN FALSE
              ELSE x.num * x.num * y.den2 < y.num * y.num * x.den2

RECURSIVE SeqSum(_)
SeqSum(s) == IF s = << >> THEN 0 ELSE s[1] + SeqSum(Tail(s))

\* dotProduct / (Math.sqrt(normA) * Math.sqrt(normB)).  The loop runs over
\* a's indices: b's further components are not read, and a component b
\* lacks is undefined, which makes every sum NaN.
cosineSimilarity(a, b) ==
  IF Len(b) < Len(a) THEN Real(0, 0) ELSE
  LET dotProduct == SeqSum([i \in 1..Len(a) |-> a[i] * b[i]])
      normA == SeqSum([i \in 1..Len(a) |-> a[i] * a[i]])
      normB == SeqSum([i \in 1..Len(a) |-> b[i] * b[i]])
  IN  Real(dotProduct, normA * normB)

\* One text's embedding: the character codes of its first EmbeddingDim
\* characters, zero-filled.  The source divides every code by 255, which
\* scales the vector and leaves every cosine as it is.
Embed(text) ==
  [i \in 1..EmbeddingDim |-> IF i <= Len(text) THEN text[i] ELSE 0]

generateEmbeddings(texts) == [t \in 1..Len(texts) |-> Embed(texts[t])]

\* Mutant: a chunk that ties the best score replaces it.
BetterOrEqual(sim, best) == ~Greater(best, sim) /\ IsFinite(sim)

\* The test of line 66, similarity > bestMatch.score.
Better(sim, best) == Greater(sim, best)

\* Lines 60-73: the scan over the chunks for one requirement embedding.
RECURSIVE Scan(_, _, _, _, _)
Scan(reqEmbedding, chunkList, embeddings, j, bestMatch) ==
  IF j > Len(chunkList) THEN bestMatch
  ELSE LET sim == cosineSimilarity(reqEmbedding, embeddings[j])
       IN  Scan(reqEmbedding, chunkList, embeddings, j + 1,
                IF Better(sim, bestMatch.score)
                  THEN [chunkId |-> chunkList[j].id,
                        score |-> sim,
                        text |-> Substring(chunkList[j].text, 0,
                                   Min(previewLength, Len(chunkList[j].text)))]
                  ELSE bestMatch)

\* Mutant: the scan starts from the score -1.
BestMatchFromBelow(reqEmbedding, chunkList, embeddings) ==
  Scan(reqEmbedding, chunkList, embeddings, 1,
       [chunkId |-> EmptyString, score |-> Real(-1, 1), text |-> EmptyString])

\* Line 60 and the scan.
BestMatch(reqEmbedding, chunkList, embeddings) ==
  Scan(reqEmbedding, chunkList, embeddings, 1,
       [chunkId |-> EmptyString, score |-> Zero, text |-> EmptyString])

\* The thresholds 0.7 and 0.4.
compliantThreshold == Real(7, 100)
partialThreshold == Real(4, 100)

\* Mutant: the thresholds are inclusive.
BaseStatusInclusive(score) ==
  IF ~Greater(compliantThreshold, score) /\ IsFinite(score) THEN "compliant"
  ELSE IF ~Greater(partialThreshold, score) /\ IsFinite(score) THEN "partial"
  ELSE "missing"

\* Mutant: the second comparison is turned round.
BaseStatusFlipped(score) ==
  IF Greater(score, compliantThreshold) THEN "compliant"
  ELSE IF Greater(partialThreshold, score) THEN "partial"
  ELSE "missing"

\* Lines 76-78.
BaseStatus(score) ==
  IF Greater(score, compliantThreshold) THEN "compliant"
  ELSE IF Greater(score, partialThreshold) THEN "partial"
  ELSE "missing"

\* Mutant: a rule match lifts every status by one step.
BoostAny(status, hasRuleMatch) ==
  IF ~hasRuleMatch THEN status
  ELSE IF status = "missing" THEN "partial" ELSE "compliant"

\* Line 84.
Boost(status, hasRuleMatch) ==
  IF hasRuleMatch /\ status = "partial" THEN "compliant" ELSE status

DetermineStatus(score, hasRuleMatch) == Boost(BaseStatus(score), hasRuleMatch)

\* Lines 81-83: rule_matches.some(rm => rm.requirement_ids.includes(reqId))
HasRuleMatch(ruleMatches, reqId) ==
  \E k \in 1..Len(ruleMatches) : reqId \in ruleMatches[k].requirement_ids

\* The requirement ids rule-based-checks attaches to each rule type.
RuleRequirementIds(ruleType) ==
  CASE ruleType = "capital_amount" ->
         {"minimum_capital_psp", "minimum_capital_p2p", "minimum_capital_wealth"}
    [] ruleType = "data_residency" ->
         {"data_residency", "primary_data_environment"}
    [] ruleType = "aml_kyc" ->
         {"aml_policy", "kyc_documentation", "cdd_enhanced", "str_reporting"}
    [] ruleType = "personnel" -> {"key_personnel", "compliance_officer"}
    [] ruleType = "licensing" -> {"licensing_category"}

RuleTypes == {"capital_amount", "data_residency", "aml_kyc", "personnel",
              "licensing"}

RuleMatchOf(ruleType) ==
  [rule_type |-> ruleType, requirement_ids |-> RuleRequirementIds(ruleType)]

\* The request bodies the model tries: chunk texts over the character codes
\* 0 (NUL), 1 and 3, one of them longer than an embedding.
CharCodes == {0, 1, 3}
ChunkTexts ==
  { << >> } \cup { << a >> : a \in CharCodes }
            \cup { << a, b >> : a \in CharCodes, b \in CharCodes }
            \cup { << 1, 3, 1 >> }

RECURSIVE ListsUpTo(_, _)
ListsUpTo(S, n) ==
  IF n = 0 THEN { << >> }
  ELSE LET shorter == ListsUpTo(S, n - 1)
       IN  shorter \cup { Append(l, x) : l \in shorter, x \in S }

RequestChunks(texts) ==
  [j \in 1..Len(texts) |->
     [id |-> << "business_plan", "_chunk_", j - 1 >>, text |-> texts[j]]]

RuleMatchLists ==
  { << >> } \cup { << RuleMatchOf(t) >> : t \in RuleTypes }
            \cup { << RuleMatchOf("capital_amount"), RuleMatchOf("aml_kyc"),
                      RuleMatchOf("capital_amount") >> }

MatchInit ==
  /\ apiKey \in BOOLEAN
  /\ absent \in { {}, {"chunks"}, {"rule_matches"} }
  /\ matchChunks \in { RequestChunks(t) : t \in ListsUpTo(ChunkTexts, MaxChunks) }
  /\ rule_matches \in RuleMatchLists
  /\ ("chunks" \in absent => matchChunks = << >>)
  /\ ("rule_matches" \in absent => rule_matches = << >>)
  /\ (~apiKey => absent = {} /\ matchChunks = << >> /\ rule_matches = << >>)
  /\ chunkEmbeddings = << >>
  /\ requirementEmbeddings = << >>
  /\ reqIndex = 0
  /\ similarity = << >>
  /\ matches = << >>
  /\ matchPc = "start"
  /\ matchResponse = NoResponse

MatchError(message) ==
  /\ matchPc' = "done"
  /\ matchResponse' = [status |-> 500, error |-> message]

\* Lines 36-54: read the body, check the key, generate both embeddings.
\* chunks.length throws a TypeError when the body has no chunks.
MatchStart ==
  /\ matchPc = "start"
  /\ IF ~apiKey
       THEN /\ MatchError("LOVABLE_API_KEY not configured")
            /\ UNCHANGED << chunkEmbeddings, requirementEmbeddings >>
       ELSE IF "chunks" \in absent
       THEN /\ MatchError("TypeError")
            /\ UNCHANGED << chunkEmbeddings, requirementEmbeddings >>
       ELSE /\ chunkEmbeddings' =
                 generateEmbeddings([j \in 1..Len(matchChunks) |-> matchChunks[j].text])
            /\ requirementEmbeddings' = generateEmbeddings(requirementTexts)
            /\ matchPc' = "loop"
            /\ UNCHANGED matchResponse
  /\ UNCHANGED << apiKey, absent, matchChunks, rule_matches, reqIndex,
                  similarity, matches >>
  /\ UNCHANGED notMatch

\* Lines 56-93: one iteration of the loop over the requirements.  The
\* variable similarity keeps the values the local of line 64 took.
\* rule_matches.some throws a TypeError when the body has no rule_matches.
MatchRequirement ==
  /\ matchPc = "loop"
  /\ reqIndex < Len(requirementIds)
  /\ LET reqId == requirementIds[reqIndex + 1]
         reqEmbedding == requirementEmbeddings[reqIndex + 1]
         bestMatch == BestMatch(reqEmbedding, matchChunks, chunkEmbeddings)
     IN  /\ similarity' = [j \in 1..Len(matchChunks) |->
                             cosineSimilarity(reqEmbedding, chunkEmbeddings[j])]
         /\ IF "rule_matches" \in absent
              THEN /\ MatchError("TypeError")
                   /\ UNCHANGED << matches, reqIndex >>
              ELSE /\ matches' = Append(matches,
                        [requirement_id |-> reqId,
                         chunk_id |-> bestMatch.chunkId,
                         similarity_score |-> bestMatch.score,
                         matched_text |-> bestMatch.text,
                         status |-> DetermineStatus(bestMatch.score,
                                      HasRuleMatch(rule_matches, reqId))])
                   /\ reqIndex' = reqIndex + 1
                   /\ UNCHANGED << matchPc, matchResponse >>
  /\ UNCHANGED << apiKey, absent, matchChunks, rule_matches, chunkEmbeddings,
                  requirementEmbeddings >>
  /\ UNCHANGED notMatch

\* Mutant: the response leaves out the requirements no chunk matched.
MatchRespondMatchedOnly ==
  /\ matchPc = "loop"
  /\ ~(reqIndex < Len(requirementIds))
  /\ LET matched == SelectSeq(matches, LAMBDA m : m.chunk_id # EmptyString)
     IN  matchResponse' = [status |-> 200,
                           semantic_matches |-> matched,
                           total_requirements |-> Len(matched)]
  /\ matchPc' = "done"
  /\ UNCHANGED << apiKey, absent, matchChunks, rule_matches, chunkEmbeddings,
                  requirementEmbeddings, reqIndex, similarity, matches >>
  /\ UNCHANGED notMatch

\* Lines 95-103: answer with the matches.
MatchRespond ==
  /\ matchPc = "loop"
  /\ ~(reqIndex < Len(requirementIds))
  /\ matchResponse' = [status |-> 200,
                       semantic_matches |-> matches,
                       total_requirements |-> Len(matches)]
  /\ matchPc' = "done"
  /\ UNCHANGED << apiKey, absent, matchChunks, rule_matches, chunkEmbeddings,
                  requirementEmbeddings, reqIndex, similarity, matches >>
  /\ UNCHANGED notMatch

MatchNext == MatchStart \/ MatchRequirement \/ MatchRespond

(***************************************************************************)
(* cosineSimilarity as a function of two vectors of any lengths            *)
(***************************************************************************)

Vectors == ListsUpTo(CharCodes, EmbeddingDim)

SimInit ==
  /\ simA \in Vectors
  /\ simB \in Vectors
  /\ simResult = NoResponse
  /\ simPc = "start"

\* Lines 130-142: the function has no check of its arguments and no throw;
\* it returns a number, NaN included, for every pair of arrays.
SimApply ==
  /\ simPc = "start"
  /\ simResult' = [status |-> 200, value |-> cosineSimilarity(simA, simB)]
  /\ simPc' = "done"
  /\ UNCHANGED << simA, simB >>
  /\ UNCHANGED notSim

SimNext == SimApply

(***************************************************************************)
(* The status determination of lines 75-84 as a function of the best      *)
(* score, in hundredths, and of the rule-match flag                        *)
(***************************************************************************)

Hundredths(k) == Real(k, 10000)

ClsInit ==
  /\ clsScore \in -100..100
  /\ clsHasRuleMatch \in BOOLEAN
  /\ clsStatus = ""
  /\ clsPc = "start"

Classify ==
  /\ clsPc = "start"
  /\ clsStatus' = DetermineStatus(Hundredths(clsScore), clsHasRuleMatch)
  /\ clsPc' = "done"
  /\ UNCHANGED << clsScore, clsHasRuleMatch >>
  /\ UNCHANGED notCls

ClsNext == Classify

(***************************************************************************)
(* score-compliance                                                        *)
(***************************************************************************)

\* Bound of the scoring engine's input.
MaxMatches == 2

CRITICAL_REQUIREMENTS ==
  << "minimum_capital_psp", "minimum_capital_p2p", "minimum_capital_wealth",
     "data_residency", "aml_policy" >>

\* Array.prototype.includes
Includes(array, x) == \E k \in 1..Len(array) : array[k] = x

\* Mutant: every requirement has the weight 1.0.
WeightFlat(isCritical) == 1

\* Line 32: the weights 2.0 and 1.0.
Weight(isCritical) == IF isCritical THEN 2 ELSE 1

\* Mutant: a partial requirement earns a quarter of the points.
PointsQuarter(status) ==
  IF status = "compliant" THEN 100
  ELSE IF status = "partial" THEN 25
  ELSE 0

\* Lines 34-37.
Points(status) ==
  IF status = "compliant" THEN 100
  ELSE IF status = "partial" THEN 50
  ELSE 0

\* Lines 31-51: the record the map callback returns for one match.
ScoreOne(match) ==
  LET isCritical == Includes(CRITICAL_REQUIREMENTS, match.requirement_id)
      weight == Weight(isCritical)
      points == Points(match.status)
  IN  [requirement_id |-> match.requirement_id,
       status |-> match.status,
       points |-> points,
       weight |-> weight,
       weighted_points |-> points * weight,
       is_critical |-> isCritical]

\* An integer as a number, and the NaN a division of 0 by 0 gives.
Number(v) == Real(v, 1)
NaN == Real(0, 0)

\* Mutant: the percentage is cut instead of rounded.
MathFloorRatio(total, max) ==
  IF max = 0 THEN NaN ELSE Number((100 * total) \div max)

\* Math.round((totalScore / maxScore) * 100): the nearest integer, a half
\* going up; 0 / 0 is NaN and Math.round(NaN) is NaN.  Both arguments are
\* never negative, and maxScore = 0 only when totalScore = 0.
MathRoundRatio(total, max) ==
  IF max = 0 THEN NaN ELSE Number((200 * total + max) \div (2 * max))

\* Mutant: the filter keeps the requirements of the other statuses.
CountStatusOthers(requirements, status) ==
  Cardinality({k \in 1..Len(requirements) : requirements[k].status # status})

\* scoredRequirements.filter(r => r.status === status).length
CountStatus(requirements, status) ==
  Cardinality({k \in 1..Len(requirements) : requirements[k].status = status})

\* The request bodies the model tries: every requirement id the repository
\* names, with every status.
ScoredIds ==
  { requirementIds[k] : k \in 1..Len(requirementIds) }
    \cup {"primary_data_environment", "str_reporting"}
Statuses == {"compliant", "partial", "missing"}
MatchInputs == [requirement_id : ScoredIds, status : Statuses]

ScoreInit ==
  /\ scoreAbsent \in { {}, {"semantic_matches"} }
  /\ semantic_matches \in ListsUpTo(MatchInputs, MaxMatches)
  /\ ("semantic_matches" \in scoreAbsent => semantic_matches = << >>)
  /\ totalScore = 0
  /\ maxScore = 0
  /\ scoredRequirements = << >>
  /\ scorePc = "start"
  /\ scoreResponse = NoResponse

\* Lines 22-28: read the body.  semantic_matches.length throws a TypeError
\* when the body has no semantic_matches, and the catch block answers 500.
ScoreStart ==
  /\ scorePc = "start"
  /\ IF "semantic_matches" \in scoreAbsent
       THEN /\ scorePc' = "done"
            /\ scoreResponse' = [status |-> 500, error |-> "TypeError"]
       ELSE /\ scorePc' = "map"
            /\ UNCHANGED scoreResponse
  /\ totalScore' = 0
  /\ maxScore' = 0
  /\ UNCHANGED << scoreAbsent, semantic_matches, scoredRequirements >>
  /\ UNCHANGED notScore

\* Lines 30-52: the map callback on the next match.
ScoreMatch ==
  /\ scorePc = "map"
  /\ Len(scoredRequirements) < Len(semantic_matches)
  /\ LET scored == ScoreOne(semantic_matches[Len(scoredRequirements) + 1])
     IN  /\ totalScore' = totalScore + scored.weighted_points
         /\ maxScore' = maxScore + 100 * scored.weight
         /\ scoredRequirements' = Append(scoredRequirements, scored)
  /\ UNCHANGED << scoreAbsent, semantic_matches, scorePc, scoreResponse >>
  /\ UNCHANGED notScore

\* Lines 54-77: the overall score, the tallies, the response.
ScoreRespond ==
  /\ scorePc = "map"
  /\ ~(Len(scoredRequirements) < Len(semantic_matches))
  /\ scoreResponse' =
       [status |-> 200,
        overall_score |-> MathRoundRatio(totalScore, maxScore),
        total_score |-> totalScore,
        max_score |-> maxScore,
        requirements |-> scoredRequirements,
        summary |-> [compliant |-> CountStatus(scoredRequirements, "compliant"),
                     partial |-> CountStatus(scoredRequirements, "partial"),
                     missing |-> CountStatus(scoredRequirements, "missing"),
                     total |-> Len(scoredRequirements)]]
  /\ scorePc' = "done"
  /\ UNCHANGED << scoreAbsent, semantic_matches, totalScore, maxScore,
                  scoredRequirements >>
  /\ UNCHANGED notScore

ScoreNext == ScoreStart \/ ScoreMatch \/ ScoreRespond

(***************************************************************************)
(* rule-based-checks                                                       *)
(***************************************************************************)

Digits == {"0", "1", "2", "3", "4", "5", "6", "7", "8", "9"}
UpperCase == << "A", "B", "C", "D", "E", "F", "G", "H", "I", "J", "K", "L", "M", 
               "N", "O", "P", "Q", "R", "S", "T", "U", "V", "W", "X", "Y", "Z" >>
LowerCase == << "a", "b", "c", "d", "e", "f", "g", "h", "i", "j", "k", "l", "m", 
               "n", "o", "p", "q", "r", "s", "t", "u", "v", "w", "x", "y", "z" >>

\* The i flag: letters are compared without their case.
FoldCase ==
  [c \in {UpperCase[k] : k \in 1..Len(UpperCase)} |->
     LowerCase[CHOOSE k \in 1..Len(UpperCase) : UpperCase[k] = c]]
Fold(c) == IF c \in DOMAIN FoldCase THEN FoldCase[c] ELSE c
Folded(text) == [i \in 1..Len(text) |-> Fold(text[i])]

\* The alternations of RULE_PATTERNS, one word per alternative, in the
\* order of the pattern.  capital_amounts is no alternation of words and is
\* modelled by CapitalEnd.
RULE_PATTERNS ==
  [data_residency |-> <<
     << "A", "W", "S" >>,
     << "A", "z", "u", "r", "e" >>,
     << "G", "C", "P" >>,
     << "e", "u", "-", "w", "e", "s", "t", "-", "1" >>,
     << "a", "p", "-", "s", "o", "u", "t", "h", "e", "a", "s", "t", "-", "1" >>,
     << "I", "r", "e", "l", "a", "n", "d" >>,
     << "S", "i", "n", "g", "a", "p", "o", "r", "e" >>,
     << "c", "l", "o", "u", "d" >>,
     << "h", "o", "s", "t", "e", "d" >> >>,
   aml_keywords |-> <<
     << "A", "M", "L" >>,
     << "A", "n", "t", "i", "-", "M", "o", "n", "e", "y", " ", "L", "a", "u", "n", "d", "e", "r", "i", "n", "g" >>,
     << "K", "Y", "C" >>,
     << "C", "u", "s", "t", "o", "m", "e", "r", " ", "D", "u", "e", " ", "D", "i", "l", "i", "g", "e", "n", "c", "e" >>,
     << "C", "D", "D" >>,
     << "S", "T", "R" >>,
     << "S", "u", "s", "p", "i", "c", "i", "o", "u", "s", " ", "T", "r", "a", "n", "s", "a", "c", "t", "i", "o", "n" >> >>,
   personnel |-> <<
     << "C", "E", "O" >>,
     << "C", "F", "O" >>,
     << "C", "T", "O" >>,
     << "C", "o", "m", "p", "l", "i", "a", "n", "c", "e", " ", "O", "f", "f", "i", "c", "e", "r" >>,
     << "B", "o", "a", "r", "d" >>,
     << "D", "i", "r", "e", "c", "t", "o", "r" >> >>,
   licensing |-> <<
     << "P", "2", "P" >>,
     << "M", "a", "r", "k", "e", "t", "p", "l", "a", "c", "e", " ", "L", "e", "n", "d", "i", "n", "g" >>,
     << "P", "a", "y", "m", "e", "n", "t", " ", "S", "e", "r", "v", "i", "c", "e", " ", "P", "r", "o", "v", "i", "d", "e", "r" >>,
     << "P", "S", "P" >>,
     << "D", "i", "g", "i", "t", "a", "l", " ", "W", "e", "a", "l", "t", "h" >>,
     << "F", "i", "n", "T", "e", "c", "h" >> >>]

FoldedPatterns ==
  [p \in DOMAIN RULE_PATTERNS |->
     [k \in 1..Len(RULE_PATTERNS[p]) |-> Folded(RULE_PATTERNS[p][k])]]

\* The folded word w stands at position i (1-based) of the folded text.
WordAt(low, i, w) ==
  /\ i + Len(w) - 1 <= Len(low)
  /\ \A k \in 1..Len(w) : low[i + k - 1] = w[k]

\* The end (the position after the match) of the first alternative that
\* matches at position i, 0 when none does.
KeywordEnd(low, i, alternatives) ==
  LET hits == {k \in 1..Len(alternatives) : WordAt(low, i, alternatives[k])}
  IN  IF hits = {} THEN 0
      ELSE i + Len(alternatives[CHOOSE k \in hits : \A h \in hits : k <= h])

\* A greedy X*: the first position from i on whose character is not of the
\* class.
RunEnd(low, i, class) ==
  LET stops == {j \in i..Len(low) : low[j] \notin class}
  IN  IF stops = {} THEN Len(low) + 1
      ELSE CHOOSE j \in stops : \A k \in stops : j <= k

\* /QAR\s*[\d,]+(?:\.\d+)?(?:\s*(?:million|M))?/gi at position i: the end of
\* the match, 0 when there is none.  The classes of neighbouring parts are
\* disjoint, so the greedy choice is the only one.
CapitalEnd(low, i) ==
  IF ~WordAt(low, i, << "q", "a", "r" >>) THEN 0
  ELSE LET amount == RunEnd(low, i + 3, SpaceClass)
           afterAmount == RunEnd(low, amount, Digits \cup {","})
           afterFraction ==
             IF /\ afterAmount <= Len(low)
                /\ low[afterAmount] = "."
                /\ RunEnd(low, afterAmount + 1, Digits) > afterAmount + 1
               THEN RunEnd(low, afterAmount + 1, Digits)
               ELSE afterAmount
           unit == RunEnd(low, afterFraction, SpaceClass)
       IN  IF afterAmount = amount THEN 0
           ELSE IF WordAt(low, unit, << "m", "i", "l", "l", "i", "o", "n" >>)
                  THEN unit + 7
           ELSE IF WordAt(low, unit, << "m" >>) THEN unit + 1
           ELSE afterFraction

\* The end of the pattern's match at position i, 0 when there is none.
MatchEnd(low, i, pattern) ==
  IF pattern = "capital_amounts" THEN CapitalEnd(low, i)
  ELSE KeywordEnd(low, i, FoldedPatterns[pattern])

\* [...text.matchAll(pattern)]: the matches from left to right, each search
\* starting where the previous match ended.  A match has the matched text
\* (match[0]) and its 0-based index.
MatchAll(text, pattern) ==
  LET low == Folded(text)
      starts == {i \in 1..Len(low) : MatchEnd(low, i, pattern) > 0}
      RECURSIVE From(_)
      From(from) ==
        LET later == {i \in starts : i >= from}
        IN  IF later = {} THEN << >>
            ELSE LET i == CHOOSE j \in later : \A k \in later : j <= k
                     end == MatchEnd(low, i, pattern)
                 IN  << [text |-> SubSeq(text, i, end - 1), index |-> i - 1] >>
                       \o From(end)
  IN  From(1)

\* The categories in the order of the handler's five loops.
Categories ==
  << [rule_type |-> "capital_amount", pattern |-> "capital_amounts"],
     [rule_type |-> "data_residency", pattern |-> "data_residency"],
     [rule_type |-> "aml_kyc", pattern |-> "aml_keywords"],
     [rule_type |-> "personnel", pattern |-> "personnel"],
     [rule_type |-> "licensing", pattern |-> "licensing"] >>

\* Mutant: the position is the offset inside the chunk.
RuleMatchLocal(chunk, ruleType, match) ==
  [rule_type |-> ruleType,
   matched_text |-> match.text,
   position |-> match.index,
   requirement_ids |-> RuleRequirementIds(ruleType)]

\* The object pushed for one match of a chunk.
RuleMatchAt(chunk, ruleType, match) ==
  [rule_type |-> ruleType,
   matched_text |-> match.text,
   position |-> chunk.start_char + match.index,
   requirement_ids |-> RuleRequirementIds(ruleType)]

\* The objects one chunk pushes for one category.
CategoryMatches(chunk, category) ==
  LET found == MatchAll(chunk.text, category.pattern)
  IN  [j \in 1..Len(found) |-> RuleMatchAt(chunk, category.rule_type, found[j])]

\* The objects one chunk pushes, in the order of the pushes.
ChunkMatches(chunk) ==
  CategoryMatches(chunk, Categories[1]) \o CategoryMatches(chunk, Categories[2])
    \o CategoryMatches(chunk, Categories[3])
    \o CategoryMatches(chunk, Categories[4])
    \o CategoryMatches(chunk, Categories[5])

\* Mutant: a match is pushed only when none of its category is at its
\* position yet.
PushNew(list, pushed) ==
  list \o SelectSeq(pushed, LAMBDA m :
            \A k \in 1..Len(list) :
              list[k].rule_type # m.rule_type \/ list[k].position # m.position)

\* allMatches.push(...) for the matches of one chunk.
PushAll(list, pushed) == list \o pushed

\* The request bodies the model tries: the chunks the chunker cuts from a
\* cleaned document of DocLen filler characters with one or two phrases
\* placed in it, and the same chunks with one chunk's text left out.
DocLen == 700

QarAmount == << "Q", "A", "R", " ", "5", ",", "0", "0", "0", ",", "0", "0", "0" >>
AmlPolicy == << "A", "M", "L", " ", "p", "o", "l", "i", "c", "y" >>
Phrases ==
  { QarAmount, AmlPolicy,
    << "q", "a", "r", " ", "1", ".", "5", " ", "m", "i", "l", "l", "i", "o", "n" >>,
    << "h", "o", "s", "t", "e", "d", " ", "o", "n", " ", "A", "W", "S" >>,
    << "C", "o", "m", "p", "l", "i", "a", "n", "c", "e", " ", "O", "f", "f", "i", "c", "e", "r" >>,
    << "P", "S", "P", "S", "P", "S", "P" >>,
    << "K", "Y", "C" >> }

\* 0-based positions: in chunk 0 only, across the start of chunk 1, inside
\* the overlap, across the end of chunk 0, in chunk 1 only.
Positions == {10, 398, 420, 495, 600}
EarlyPositions == {10, 398, 420}
LatePositions == {495, 600}

Placed(len, placements) ==
  [i \in 1..len |->
     IF \E p \in placements : p.at < i /\ i <= p.at + Len(p.phrase)
       THEN LET p == CHOOSE q \in placements :
                       q.at < i /\ i <= q.at + Len(q.phrase)
            IN  p.phrase[i - p.at]
       ELSE "x"]

LexDocuments ==
  { << >>, Placed(DocLen, {}) }
    \cup { Placed(DocLen, {[at |-> p, phrase |-> t]}) :
             p \in Positions, t \in Phrases }
    \cup { Placed(DocLen, {[at |-> p1, phrase |-> t1],
                           [at |-> p2, phrase |-> t2]}) :
             p1 \in EarlyPositions, t1 \in Phrases,
             p2 \in LatePositions, t2 \in {QarAmount, AmlPolicy} }

\* The chunks the chunker's loop cuts from a cleaned text.
RECURSIVE CutChunks(_, _, _, _)
CutChunks(text, docType, pos, n) ==
  IF pos < Len(text)
    THEN << MakeChunk(text, docType, pos, n) >>
           \o CutChunks(text, docType, NextStart(pos), n + 1)
    ELSE << >>

WithoutText(list, k) == [list EXCEPT ![k].text = Null]

LexRequests(document) ==
  LET cut == CutChunks(document, "business_plan", 0, 0)
  IN  {cut} \cup { WithoutText(cut, k) : k \in 1..Len(cut) }

LexInit ==
  /\ lexDocument \in LexDocuments
  /\ lexChunks \in LexRequests(lexDocument)
  /\ lexIndex = 0
  /\ allMatches = << >>
  /\ lexPc = "start"
  /\ lexResponse = NoResponse

\* Lines 30-34: read the body, start with no matches.
LexStart ==
  /\ lexPc = "start"
  /\ lexIndex' = 0
  /\ allMatches' = << >>
  /\ lexPc' = "loop"
  /\ UNCHANGED << lexDocument, lexChunks, lexResponse >>
  /\ UNCHANGED notLex

\* Mutant: a chunk without a text is skipped.
LexChunkSkip ==
  /\ lexPc = "loop"
  /\ lexIndex < Len(lexChunks)
  /\ LET chunk == lexChunks[lexIndex + 1]
     IN  allMatches' = IF chunk.text = Null THEN allMatches
                       ELSE PushAll(allMatches, ChunkMatches(chunk))
  /\ lexIndex' = lexIndex + 1
  /\ UNCHANGED << lexDocument, lexChunks, lexPc, lexResponse >>
  /\ UNCHANGED notLex

\* Lines 37-95: one iteration of the loop over the chunks.  text.matchAll
\* throws a TypeError on a chunk without a text, before anything is pushed
\* for that chunk, and the catch block of lines 105-111 answers 500.
LexChunk ==
  /\ lexPc = "loop"
  /\ lexIndex < Len(lexChunks)
  /\ LET chunk == lexChunks[lexIndex + 1]
     IN  IF chunk.text = Null
           THEN /\ lexPc' = "done"
                /\ lexResponse' = [status |-> 500, error |-> "TypeError"]
                /\ UNCHANGED << lexIndex, allMatches >>
           ELSE /\ allMatches' = PushAll(allMatches, ChunkMatches(chunk))
                /\ lexIndex' = lexIndex + 1
                /\ UNCHANGED << lexPc, lexResponse >>
  /\ UNCHANGED << lexDocument, lexChunks >>
  /\ UNCHANGED notLex

\* Lines 96-104: the loop is over, answer with the matches.
LexRespond ==
  /\ lexPc = "loop"
  /\ ~(lexIndex < Len(lexChunks))
  /\ lexResponse' = [status |-> 200,
                     rule_matches |-> allMatches,
                     total_matches |-> Len(allMatches)]
  /\ lexPc' = "done"
  /\ UNCHANGED << lexDocument, lexChunks, lexIndex, allMatches >>
  /\ UNCHANGED notLex

LexNext == LexStart \/ LexChunk \/ LexRespond

(***************************************************************************)
(* Two invocations of one stage at a time.  Every handler keeps its state  *)
(* in variables declared inside the serve callback, so each invocation has *)
(* a record of locals of its own; the module-level objects (corsHeaders,   *)
(* RULE_PATTERNS, QCB_REQUIREMENTS, CRITICAL_REQUIREMENTS) are never       *)
(* written.  A step is one step of the handler's actions above.            *)
(***************************************************************************)

Stages == {"chunker", "lexical", "similarity", "scoring"}

\* The locals of an invocation that has just received its request.
Fresh(stage, request) ==
  CASE stage = "chunker" ->
         [pc |-> "start", request |-> request, cleanedText |-> << >>,
          chunks |-> << >>, startPos |-> 0, chunkId |-> 0,
          response |-> NoResponse]
    [] stage = "lexical" ->
         [pc |-> "start", request |-> request, index |-> 0,
          allMatches |-> << >>, response |-> NoResponse]
    [] stage = "similarity" ->
         [pc |-> "start", request |-> request, chunkEmbeddings |-> << >>,
          requirementEmbeddings |-> << >>, index |-> 0, matches |-> << >>,
          response |-> NoResponse]
    [] stage = "scoring" ->
         [pc |-> "start", request |-> request, totalScore |-> 0,
          maxScore |-> 0, scoredRequirements |-> << >>,
          response |-> NoResponse]

Failed(l, message) ==
  [l EXCEPT !.pc = "done", !.response = [status |-> 500, error |-> message]]

\* ChunkerClean, ChunkerLoop and ChunkerRespond on an invocation's locals.
ChunkerStep(l) ==
  IF l.pc = "start"
    THEN IF l.request.raw_text = Null THEN Failed(l, "TypeError")
         ELSE [l EXCEPT !.cleanedText = CleanText(l.request.raw_text),
                        !.pc = "loop"]
  ELSE IF l.startPos < Len(l.cleanedText)
    THEN [l EXCEPT !.chunks = Append(@, MakeChunk(l.cleanedText,
                                l.request.document_type, l.startPos, l.chunkId)),
                   !.startPos = NextStart(@),
                   !.chunkId = @ + 1]
  ELSE [l EXCEPT !.pc = "done",
                 !.response = [status |-> 200,
                               document_type |-> l.request.document_type,
                               chunks |-> l.chunks,
                               total_chunks |-> Len(l.chunks)]]

\* LexStart, LexChunk and LexRespond on an invocation's locals.
LexStep(l) ==
  IF l.pc = "start" THEN [l EXCEPT !.pc = "loop"]
  ELSE IF l.index < Len(l.request.chunks)
    THEN IF l.request.chunks[l.index + 1].text = Null
           THEN Failed(l, "TypeError")
           ELSE [l EXCEPT !.allMatches =
                            PushAll(@, ChunkMatches(l.request.chunks[l.index + 1])),
                          !.index = @ + 1]
  ELSE [l EXCEPT !.pc = "done",
                 !.response = [status |-> 200,
                               rule_matches |-> l.allMatches,
                               total_matches |-> Len(l.allMatches)]]

\* MatchStart, MatchRequirement and MatchRespond on an invocation's locals,
\* for a request with both fields and a configured key.
SimilarityStep(l) ==
  IF l.pc = "start"
    THEN [l EXCEPT !.chunkEmbeddings =
                     generateEmbeddings([j \in 1..Len(l.request.chunks) |->
                                           l.request.chunks[j].text]),
                   !.requirementEmbeddings = generateEmbeddings(requirementTexts),
                   !.pc = "loop"]
  ELSE IF l.index < Len(requirementIds)
    THEN LET reqId == requirementIds[l.index + 1]
             bestMatch == BestMatch(l.requirementEmbeddings[l.index + 1],
                                    l.request.chunks, l.chunkEmbeddings)
         IN  [l EXCEPT !.matches = Append(@,
                          [requirement_id |-> reqId,
                           chunk_id |-> bestMatch.chunkId,
                           similarity_score |-> bestMatch.score,
                           matched_text |-> bestMatch.text,
                           status |-> DetermineStatus(bestMatch.score,
                                        HasRuleMatch(l.request.rule_matches, reqId))]),
                       !.index = @ + 1]
  ELSE [l EXCEPT !.pc = "done",
                 !.response = [status |-> 200,
                               semantic_matches |-> l.matches,
                               total_requirements |-> Len(l.matches)]]

\* ScoreStart, ScoreMatch and ScoreRespond on an invocation's locals.
ScoreStep(l) ==
  IF l.pc = "start" THEN [l EXCEPT !.totalScore = 0, !.maxScore = 0, !.pc = "map"]
  ELSE IF Len(l.scoredRequirements) < Len(l.request.semantic_matches)
    THEN LET scored == ScoreOne(l.request.semantic_matches[
                                  Len(l.scoredRequirements) + 1])
         IN  [l EXCEPT !.totalScore = @ + scored.weighted_points,
                       !.maxScore = @ + 100 * scored.weight,
                       !.scoredRequirements = Append(@, scored)]
  ELSE [l EXCEPT
          !.pc = "done",
          !.response =
            [status |-> 200,
             overall_score |-> MathRoundRatio(l.totalScore, l.maxScore),
             total_score |-> l.totalScore,
             max_score |-> l.maxScore,
             requirements |-> l.scoredRequirements,
             summary |->
               [compliant |-> CountStatus(l.scoredRequirements, "compliant"),
                partial |-> CountStatus(l.scoredRequirements, "partial"),
                missing |-> CountStatus(l.scoredRequirements, "missing"),
                total |-> Len(l.scoredRequirements)]]]

Step(stage, l) ==
  CASE stage = "chunker" -> ChunkerStep(l)
    [] stage = "lexical" -> LexStep(l)
    [] stage = "similarity" -> SimilarityStep(l)
    [] stage = "scoring" -> ScoreStep(l)

\* Mutant: totalScore and maxScore are declared at module level, so a step
\* of one scoring invocation writes the other's accumulators too.
StepSharedTotals(stage, all, i) ==
  LET stepped == Step(stage, all[i])
  IN  [j \in 1..Len(all) |->
         IF j = i THEN stepped
         ELSE IF stage = "scoring"
           THEN [all[j] EXCEPT !.totalScore = stepped.totalScore,
                               !.maxScore = stepped.maxScore]
         ELSE all[j]]

\* A step of invocation i changes its own locals only.
StepOne(stage, all, i) == [all EXCEPT ![i] = Step(stage, all[i])]

\* The request bodies the model tries, a few for every stage.
ConcDocuments ==
  { Placed(DocLen, {[at |-> 420, phrase |-> QarAmount]}),
    Placed(DocLen, {[at |-> 10, phrase |-> QarAmount],
                    [at |-> 600, phrase |-> AmlPolicy]}) }
ConcRequests(stage) ==
  CASE stage = "chunker" ->
         [raw_text : {Null, WordText(450), WordText(900), DirtyText(30)},
          document_type : DocumentTypes]
    [] stage = "lexical" ->
         { [chunks |-> c] :
             c \in UNION { LexRequests(d) : d \in ConcDocuments } }
    [] stage = "similarity" ->
         [chunks : { RequestChunks(t) :
                       t \in { << >>, << << 1 >> >>, << << 0, 1 >>, << 3 >> >> } },
          rule_matches : { << >>, << RuleMatchOf("aml_kyc") >> }]
    [] stage = "scoring" ->
         [semantic_matches :
            { << >>,
              << [requirement_id |-> "aml_policy", status |-> "compliant"] >>,
              << [requirement_id |-> "key_personnel", status |-> "partial"],
                 [requirement_id |-> "aml_policy", status |-> "missing"] >>,
              << [requirement_id |-> "data_residency", status |-> "partial"],
                 [requirement_id |-> "licensing_category", status |-> "compliant"] >> }]

ConcInit ==
  /\ concStage \in Stages
  /\ invocations \in { << Fresh(concStage, r1), Fresh(concStage, r2) >> :
                         r1 \in ConcRequests(concStage),
                         r2 \in ConcRequests(concStage) }

\* One step of one of the two invocations, in any interleaving.
ConcStep ==
  /\ \E i \in 1..Len(invocations) :
       /\ invocations[i].pc # "done"
       /\ invocations' = StepOne(concStage, invocations, i)
  /\ UNCHANGED concStage
  /\ UNCHANGED notConc

ConcNext == ConcStep

(***************************************************************************)
(* Dashboard: analyzeDocuments                                             *)
(***************************************************************************)

StageNames ==
  << "extract-pdf", "preprocess-chunks", "rule-based-checks",
     "semantic-matching", "score-compliance", "generate-report" >>
StageIndex(fn) == CHOOSE k \in 1..Len(StageNames) : StageNames[k] = fn
\* The await the run is suspended at, by the function it waits for.
AwaitPcs == { StageNames[k] : k \in 1..Len(StageNames) }

\* supabase.functions.invoke(fn, {body}): the call is under way.
Invoke(calls, fn, body) ==
  Append(calls, [fn |-> fn, body |-> body, outcome |-> "pending",
                 data |-> NoResponse])

\* The calls of one function in the order they were made.
CallsOf(calls, fn) == SelectSeq(calls, LAMBDA c : c.fn = fn)

\* The data a function can answer a request with.  generate-report reads
\* scoring_result.overall_score, so it has none for a null scoring_result.
DataOf(call) ==
  CASE call.fn = "extract-pdf" ->
         { [raw_text |-> t, document_type |-> call.body.document_type] :
             t \in {"plan", "policy"} }
    [] call.fn = "preprocess-chunks" ->
         { [chunks |-> c] :
             c \in { << >>,
                     << [text |-> call.body.raw_text,
                         document_type |-> call.body.document_type] >> } }
    [] call.fn = "rule-based-checks" ->
         { [rule_matches |-> m] : m \in { << >>, << "aml_kyc" >> } }
    [] call.fn = "semantic-matching" ->
         { [semantic_matches |-> m] : m \in { << >>, << "aml_policy" >> } }
    [] call.fn = "score-compliance" ->
         { [overall_score |-> n] : n \in {0, 100} }
    [] call.fn = "generate-report" ->
         IF call.body.scoring_result = NoResponse THEN { }
         ELSE { [overall_score |-> call.body.scoring_result.overall_score,
                 urgent_recommendations |-> << >>] }

\* What a call can settle with: { data }, { data: null, error } or a
\* rejected promise.
Replies(call) ==
  { [outcome |-> "ok", data |-> d] : d \in DataOf(call) }
    \cup { [outcome |-> "nodata", data |-> NoResponse],
           [outcome |-> "throws", data |-> NoResponse] }

Awaited == CallsOf(dashCalls, dashPc)
Settled == \A k \in 1..Len(Awaited) : Awaited[k].outcome # "pending"
Rejected == \E k \in 1..Len(Awaited) : Awaited[k].outcome = "throws"
NoData(calls) == \E k \in 1..Len(calls) : calls[k].data = NoResponse

\* Mutant: only the first document's chunks are passed on.
AllChunksOfFirst(docs) ==
  IF docs = << >> THEN << >> ELSE docs[1].data.chunks

\* chunkedDocs.flatMap(doc => doc.data.chunks)
RECURSIVE AllChunks(_)
AllChunks(docs) ==
  IF docs = << >> THEN << >>
  ELSE docs[1].data.chunks \o AllChunks(Tail(docs))

\* The catch block and the finally block.
DashCatch ==
  /\ isAnalyzing' = FALSE
  /\ dashPc' = "idle"
  /\ UNCHANGED results

Documents ==
  { [businessPlan |-> "JVBERi0xLjQ", compliancePolicy |-> "JVBERi0xLjU",
     legalStructure |-> "JVBERi0xLjY"],
    [businessPlan |-> "JVBERi0xLjc", compliancePolicy |-> "JVBERi0xLjc",
     legalStructure |-> "JVBERi0xLjc"] }

DashInit ==
  /\ isAnalyzing = FALSE
  /\ results = NoResponse
  /\ dashPc = "idle"
  /\ dashCalls = << >>

\* The uploader is rendered and calls analyzeDocuments, which runs up to
\* its first await.
DashStart ==
  /\ dashPc = "idle"
  /\ results = NoResponse
  /\ ~isAnalyzing
  /\ \E documents \in Documents :
       dashCalls' =
         Invoke(Invoke(Invoke(<< >>,
           "extract-pdf", [pdf_base64 |-> documents.businessPlan,
                           document_type |-> "business_plan"]),
           "extract-pdf", [pdf_base64 |-> documents.compliancePolicy,
                           document_type |-> "compliance_policy"]),
           "extract-pdf", [pdf_base64 |-> documents.legalStructure,
                           document_type |-> "legal_structure"])
  /\ isAnalyzing' = TRUE
  /\ dashPc' = "extract-pdf"
  /\ UNCHANGED results
  /\ UNCHANGED notDash

\* One call under way settles.
DashSettle ==
  /\ \E i \in 1..Len(dashCalls) :
       /\ dashCalls[i].outcome = "pending"
       /\ \E r \in Replies(dashCalls[i]) :
            dashCalls' = [dashCalls EXCEPT ![i].outcome = r.outcome,
                                           ![i].data = r.data]
  /\ UNCHANGED << isAnalyzing, results, dashPc >>
  /\ UNCHANGED notDash

\* An awaited promise rejects: Promise.all rejects with its first
\* rejection, the others still under way.
DashReject ==
  /\ dashPc \in AwaitPcs
  /\ Rejected
  /\ DashCatch
  /\ UNCHANGED dashCalls
  /\ UNCHANGED notDash

\* extractedDocs.map(...): the documents in order; doc.data.raw_text throws
\* on the first document without data, the earlier ones already mapped.
DashAfterExtract ==
  /\ dashPc = "extract-pdf"
  /\ Settled /\ ~Rejected
  /\ LET extractedDocs == Awaited
         mapped == IF NoData(extractedDocs)
                     THEN (CHOOSE k \in 1..Len(extractedDocs) :
                             /\ extractedDocs[k].data = NoResponse
                             /\ \A j \in 1..(k - 1) :
                                  extractedDocs[j].data # NoResponse) - 1
                   ELSE Len(extractedDocs)
         RECURSIVE InvokeAll(_, _)
         InvokeAll(calls, k) ==
           IF k > mapped THEN calls
           ELSE InvokeAll(
                  Invoke(calls, "preprocess-chunks",
                         [raw_text |-> extractedDocs[k].data.raw_text,
                          document_type |-> extractedDocs[k].data.document_type]),
                  k + 1)
     IN  /\ dashCalls' = InvokeAll(dashCalls, 1)
         /\ IF NoData(extractedDocs) THEN DashCatch
            ELSE /\ dashPc' = "preprocess-chunks"
                 /\ UNCHANGED << isAnalyzing, results >>
  /\ UNCHANGED notDash

\* flatMap over the chunked documents, then rule-based-checks is invoked.
DashAfterChunk ==
  /\ dashPc = "preprocess-chunks"
  /\ Settled /\ ~Rejected
  /\ LET chunkedDocs == Awaited
     IN  IF NoData(chunkedDocs)
           THEN DashCatch /\ UNCHANGED dashCalls
         ELSE /\ dashCalls' = Invoke(dashCalls, "rule-based-checks",
                                     [chunks |-> AllChunks(chunkedDocs)])
              /\ dashPc' = "rule-based-checks"
              /\ UNCHANGED << isAnalyzing, results >>
  /\ UNCHANGED notDash

\* ruleData.rule_matches throws on null; else semantic-matching is invoked.
DashAfterRules ==
  /\ dashPc = "rule-based-checks"
  /\ Settled /\ ~Rejected
  /\ LET ruleData == Awaited[1].data
         allChunks == CallsOf(dashCalls, "rule-based-checks")[1].body.chunks
     IN  IF ruleData = NoResponse
           THEN DashCatch /\ UNCHANGED dashCalls
         ELSE /\ dashCalls' = Invoke(dashCalls, "semantic-matching",
                                     [chunks |-> allChunks,
                                      rule_matches |-> ruleData.rule_matches])
              /\ dashPc' = "semantic-matching"
              /\ UNCHANGED << isAnalyzing, results >>
  /\ UNCHANGED notDash

\* semanticData.semantic_matches throws on null; else score-compliance is
\* invoked.
DashAfterSemantic ==
  /\ dashPc = "semantic-matching"
  /\ Settled /\ ~Rejected
  /\ LET semanticData == Awaited[1].data
     IN  IF semanticData = NoResponse
           THEN DashCatch /\ UNCHANGED dashCalls
         ELSE /\ dashCalls' = Invoke(dashCalls, "score-compliance",
                                     [semantic_matches |->
                                        semanticData.semantic_matches])
              /\ dashPc' = "score-compliance"
              /\ UNCHANGED << isAnalyzing, results >>
  /\ UNCHANGED notDash

\* scoreData is passed on whole, nothing is read from it: generate-report
\* is invoked with null as well.
DashAfterScore ==
  /\ dashPc = "score-compliance"
  /\ Settled /\ ~Rejected
  /\ LET scoreData == Awaited[1].data
     IN  dashCalls' = Invoke(dashCalls, "generate-report",
                             [scoring_result |-> scoreData])
  /\ dashPc' = "generate-report"
  /\ UNCHANGED << isAnalyzing, results >>
  /\ UNCHANGED notDash

\* setResults(reportData), then the finally block; the uploader is
\* rendered again when reportData is null.
DashAfterReport ==
  /\ dashPc = "generate-report"
  /\ Settled /\ ~Rejected
  /\ LET reportData == Awaited[1].data
     IN  /\ results' = reportData
         /\ dashPc' = IF reportData = NoResponse THEN "idle" ELSE "shown"
  /\ isAnalyzing' = FALSE
  /\ UNCHANGED dashCalls
  /\ UNCHANGED notDash

DashNext ==
  \/ DashStart
  \/ DashSettle
  \/ DashReject
  \/ DashAfterExtract
  \/ DashAfterChunk
  \/ DashAfterRules
  \/ DashAfterSemantic
  \/ DashAfterScore
  \/ DashAfterReport

(***************************************************************************)
(* Index: handleEvaluate                                                   *)
(***************************************************************************)

\* The number of calls of handleEvaluate the model follows.
MaxEvaluations == 3

DefaultInputs ==
  [businessModel |-> << "A", "l" >>, amlSecurity |-> << "O", "u", "r" >>,
   techOperations |-> << "O", "u", "r", " " >>]
\* What the three text areas can hold.
InputTexts ==
  { DefaultInputs,
    [businessModel |-> << >>, amlSecurity |-> << >>, techOperations |-> << >>],
    [businessModel |-> << " ", "\n" >>, amlSecurity |-> << >>,
     techOperations |-> << "\t" >>],
    [businessModel |-> << " " >>, amlSecurity |-> << >>,
     techOperations |-> << " ", "a", " " >>] }

\* !businessModel.trim() && !amlSecurity.trim() && !techOperations.trim()
AllBlank(inputs) ==
  /\ Trim(inputs.businessModel) = << >>
  /\ Trim(inputs.amlSecurity) = << >>
  /\ Trim(inputs.techOperations) = << >>

\* What analyze-compliance can settle with: { data }, { data: null, error }
\* or a rejected promise.
IdxReplies ==
  { [outcome |-> "ok", data |-> [score |-> n]] : n \in {40, 85} }
    \cup { [outcome |-> "error", data |-> NoResponse],
           [outcome |-> "throws", data |-> NoResponse] }

\* Mutant: setResult(data) runs before the error is looked at.
ResultAfterAlways(reply, previous) == reply.data

\* if (error) throw error; setResult(data): the stored result after a reply.
ResultAfter(reply, previous) ==
  IF reply.outcome = "ok" THEN reply.data ELSE previous

IdxInit ==
  /\ idxInputs = DefaultInputs
  /\ isLoading = FALSE
  /\ result = NoResponse
  /\ idxPc = "mounted"
  /\ idxRequests = << >>
  /\ idxOutcome = << >>

\* The user edits the text areas.
IdxEdit ==
  /\ idxPc = "mounted"
  /\ idxInputs' \in InputTexts
  /\ UNCHANGED << isLoading, result, idxPc, idxRequests, idxOutcome >>
  /\ UNCHANGED notIdx

\* handleEvaluate up to its await: it returns at once when all three texts
\* are blank, else sets isLoading and invokes analyze-compliance.
IdxEvaluate ==
  /\ idxPc = "mounted"
  /\ Len(idxOutcome) < MaxEvaluations
  /\ IF AllBlank(idxInputs)
       THEN /\ idxOutcome' = Append(idxOutcome, "returned")
            /\ UNCHANGED << isLoading, idxRequests >>
     ELSE /\ isLoading' = TRUE
          /\ idxRequests' =
               Append(idxRequests,
                      [fn |-> "analyze-compliance", body |-> idxInputs,
                       outcome |-> "pending", data |-> NoResponse])
          /\ idxOutcome' = Append(idxOutcome, "invoked")
  /\ UNCHANGED << idxInputs, result, idxPc >>
  /\ UNCHANGED notIdx

\* The call settles and handleEvaluate runs to its end: setResult(data) or
\* the catch block, then the finally block.
IdxSettle ==
  /\ \E i \in 1..Len(idxRequests) :
       /\ idxRequests[i].outcome = "pending"
       /\ \E reply \in IdxReplies :
            /\ idxRequests' = [idxRequests EXCEPT ![i].outcome = reply.outcome,
                                                  ![i].data = reply.data]
            /\ result' = ResultAfter(reply, result)
  /\ isLoading' = FALSE
  /\ UNCHANGED << idxInputs, idxPc, idxOutcome >>
  /\ UNCHANGED notIdx

IdxNext == IdxEdit \/ IdxEvaluate \/ IdxSettle

(***************************************************************************)
(* Specifications: one handler runs, the others are idle                   *)
(***************************************************************************)

ChunkIdle ==
  /\ raw_text = << >> /\ document_type = "" /\ cleanedText = << >>
  /\ chunks = << >> /\ startPos = 0 /\ chunkId = 0
  /\ chunkPc = "idle" /\ chunkResponse = NoResponse

CallerIdle == previousRuns = << >>

SimIdle ==
  simA = << >> /\ simB = << >> /\ simResult = NoResponse /\ simPc = "idle"

ConcIdle == concStage = "" /\ invocations = << >>

DashIdle ==
  /\ isAnalyzing = FALSE /\ results = NoResponse /\ dashPc = "unmounted"
  /\ dashCalls = << >>

IdxIdle ==
  /\ idxInputs = << >> /\ isLoading = FALSE /\ result = NoResponse
  /\ idxPc = "unmounted" /\ idxRequests = << >> /\ idxOutcome = << >>


LexIdle ==
  /\ lexDocument = << >> /\ lexChunks = << >> /\ lexIndex = 0
  /\ allMatches = << >> /\ lexPc = "idle" /\ lexResponse = NoResponse

MatchIdle ==
  /\ apiKey = FALSE /\ absent = {} /\ matchChunks = << >>
  /\ rule_matches = << >> /\ chunkEmbeddings = << >>
  /\ requirementEmbeddings = << >> /\ reqIndex = 0 /\ similarity = << >>
  /\ matches = << >> /\ matchPc = "idle" /\ matchResponse = NoResponse

ClsIdle ==
  /\ clsScore = 0 /\ clsHasRuleMatch = FALSE /\ clsStatus = ""
  /\ clsPc = "idle"

ScoreIdle ==
  /\ scoreAbsent = {} /\ semantic_matches = << >> /\ totalScore = 0
  /\ maxScore = 0 /\ scoredRequirements = << >> /\ scorePc = "idle"
  /\ scoreResponse = NoResponse

\* Nothing but the edge functions runs.
RestIdle == SimIdle /\ ConcIdle /\ DashIdle /\ IdxIdle
\* No edge function runs.
EdgeIdle ==
  ChunkIdle /\ CallerIdle /\ LexIdle /\ MatchIdle /\ ClsIdle /\ ScoreIdle

InitChunk ==
  ChunkInit /\ CallerIdle /\ LexIdle /\ MatchIdle /\ ClsIdle /\ ScoreIdle
    /\ RestIdle
SpecChunk == InitChunk /\ [][ChunkNext]_vars

\* The chunk loop on its own, from the state lines 27-38 leave: the text is
\* cleaned, startPos and chunkId are 0.  The loop and the response are
\* synchronous code: a step that can be taken is taken.
InitChunkLoop ==
  /\ raw_text \in RawTexts \ {Null}
  /\ document_type \in DocumentTypes
  /\ cleanedText = CleanText(raw_text)
  /\ chunks = << >>
  /\ startPos = 0
  /\ chunkId = 0
  /\ chunkPc = "loop"
  /\ chunkResponse = NoResponse
  /\ CallerIdle /\ LexIdle /\ MatchIdle /\ ClsIdle /\ ScoreIdle
  /\ RestIdle
ChunkLoopNext == ChunkerLoop \/ ChunkerRespond
SpecChunkLoop ==
  /\ InitChunkLoop
  /\ [][ChunkLoopNext]_vars
  /\ WF_vars(ChunkerLoop)
  /\ WF_vars(ChunkerRespond)

\* The chunker run twice: the second request carries the first run's
\* cleaned text.
InitRechunk ==
  ChunkInit /\ CallerIdle /\ LexIdle /\ MatchIdle /\ ClsIdle /\ ScoreIdle
    /\ RestIdle
SpecRechunk == InitRechunk /\ [][RechunkNext]_vars

InitLex ==
  LexInit /\ ChunkIdle /\ CallerIdle /\ MatchIdle /\ ClsIdle /\ ScoreIdle
    /\ RestIdle
SpecLex == InitLex /\ [][LexNext]_vars

InitMatch ==
  MatchInit /\ ChunkIdle /\ CallerIdle /\ LexIdle /\ ClsIdle /\ ScoreIdle
    /\ RestIdle
SpecMatch == InitMatch /\ [][MatchNext]_vars

InitClassify ==
  ClsInit /\ ChunkIdle /\ CallerIdle /\ LexIdle /\ MatchIdle /\ ScoreIdle
    /\ RestIdle
SpecClassify == InitClassify /\ [][ClsNext]_vars

InitScore ==
  ScoreInit /\ ChunkIdle /\ CallerIdle /\ LexIdle /\ MatchIdle /\ ClsIdle
    /\ RestIdle

InitConc == ConcInit /\ EdgeIdle /\ SimIdle /\ DashIdle /\ IdxIdle
SpecConc == InitConc /\ [][ConcNext]_vars

InitDash == DashInit /\ EdgeIdle /\ SimIdle /\ ConcIdle /\ IdxIdle
SpecDash == InitDash /\ [][DashNext]_vars

InitIdx == IdxInit /\ EdgeIdle /\ SimIdle /\ ConcIdle /\ DashIdle
SpecIdx == InitIdx /\ [][IdxNext]_vars

InitSim == SimInit /\ EdgeIdle /\ ConcIdle /\ DashIdle /\ IdxIdle
SpecSim == InitSim /\ [][SimNext]_vars
SpecScore == InitScore /\ [][ScoreNext]_vars

(***************************************************************************)
(* Claims about the chunker                                                *)
(***************************************************************************)

\* The chunker has answered 200 for a text whose cleaned length is L.
ChunkerAnswered == chunkPc = "done" /\ chunkResponse.status = 200
CleanedLength == Len(cleanedText)
Emitted == chunkResponse.chunks

\* C1: chunk coverage.  For every cleaned text of length L > 0 the chunks'
\* intervals [start_char, end_char), in order, cover [0, L) without a gap:
\* the first chunk starts at 0, every later chunk starts at or before the
\* previous chunk's end_char, the last chunk's end_char is L, and every
\* position of [0, L) lies in some chunk.
C1_ChunkCoverage ==
  (ChunkerAnswered /\ CleanedLength > 0) =>
    /\ Len(Emitted) > 0
    /\ Emitted[1].start_char = 0
    /\ \A i \in 1..(Len(Emitted) - 1) :
         Emitted[i+1].start_char <= Emitted[i].end_char
    /\ Emitted[Len(Emitted)].end_char = CleanedLength
    /\ \A p \in 0..(CleanedLength - 1) :
         \E i \in 1..Len(Emitted) :
           Emitted[i].start_char <= p /\ p < Emitted[i].end_char

\* C1 witness: a text cut into three or more chunks, the last one shorter
\* than the window.
C1_Witness ==
  /\ ChunkerAnswered
  /\ Len(Emitted) >= 3
  /\ Emitted[Len(Emitted)].end_char - Emitted[Len(Emitted)].start_char < chunkSize

\* C2 as stated: every cleaned text with 0 < L < 500 yields exactly one
\* chunk, spanning [0, L).
C2_ShortTextOneChunk ==
  (ChunkerAnswered /\ 0 < CleanedLength /\ CleanedLength < chunkSize) =>
    /\ Len(Emitted) = 1
    /\ Emitted[1].start_char = 0
    /\ Emitted[1].end_char = CleanedLength

\* C2 as amended: a cleaned text with 0 < L <= 400 (the step) yields exactly
\* one chunk, spanning [0, L); a cleaned text with 400 < L < 500 yields two
\* chunks, [0, L) and [400, L).
C2_ShortTextAmended ==
  ChunkerAnswered =>
    /\ (0 < CleanedLength /\ CleanedLength <= chunkSize - overlap) =>
         /\ Len(Emitted) = 1
         /\ Emitted[1].start_char = 0
         /\ Emitted[1].end_char = CleanedLength
    /\ (chunkSize - overlap < CleanedLength /\ CleanedLength < chunkSize) =>
         /\ Len(Emitted) = 2
         /\ Emitted[1].start_char = 0
         /\ Emitted[1].end_char = CleanedLength
         /\ Emitted[2].start_char = chunkSize - overlap
         /\ Emitted[2].end_char = CleanedLength

\* C2 witness: a text shorter than the window and longer than the step has
\* been chunked.
C2_Witness ==
  /\ ChunkerAnswered
  /\ chunkSize - overlap < CleanedLength /\ CleanedLength < chunkSize
  /\ Len(Emitted) = 2

\* C3: chunk overlap.  For every cleaned text of length L > 500, consecutive
\* chunks start exactly 400 apart, and whenever chunk i+1 is not the final
\* chunk the overlap [chunk[i+1].start_char, chunk[i].end_char) is non-empty
\* and exactly 100 characters long.
C3_ChunkOverlap ==
  (ChunkerAnswered /\ CleanedLength > chunkSize) =>
    \A i \in 1..(Len(Emitted) - 1) :
      /\ Emitted[i+1].start_char - Emitted[i].start_char = 400
      /\ (i + 1 < Len(Emitted)) =>
           /\ Emitted[i+1].start_char < Emitted[i].end_char
           /\ Emitted[i].end_char - Emitted[i+1].start_char = 100

\* C3 witness: a text longer than the window with a non-final second chunk.
C3_Witness ==
  /\ ChunkerAnswered
  /\ CleanedLength > chunkSize
  /\ Len(Emitted) >= 3
  /\ Emitted[1].end_char - Emitted[2].start_char = 100

\* C17: the chunker rejects a missing text.  When raw_text is null or
\* undefined the chunker answers with an error and no chunks; for every
\* defined string it succeeds.
C17_RejectsMissingText ==
  chunkPc = "done" =>
    /\ raw_text = Null =>
         /\ chunkResponse.status = 500
         /\ "chunks" \notin DOMAIN chunkResponse
         /\ chunks = << >>
    /\ raw_text # Null =>
         /\ chunkResponse.status = 200
         /\ "chunks" \in DOMAIN chunkResponse

\* C17 witness: a request without raw_text has been answered with the error.
C17_Witness ==
  /\ chunkPc = "done"
  /\ raw_text = Null
  /\ chunkResponse.status = 500

IsBlank(s) == \A i \in 1..Len(s) : IsSpace(s[i])

\* C18: empty text yields no chunks.  When the cleaned text has length 0,
\* which is the case for the empty and for every whitespace-only raw text,
\* the chunker answers without error with an empty chunk sequence and
\* total_chunks 0.
C18_EmptyTextNoChunks ==
  (chunkPc = "done" /\ raw_text # Null) =>
    /\ IsBlank(raw_text) => CleanedLength = 0
    /\ CleanedLength = 0 =>
         /\ chunkResponse.status = 200
         /\ Emitted = << >>
         /\ chunkResponse.total_chunks = 0

\* C18 witness: a raw text of whitespace only has been answered.
C18_Witness ==
  /\ ChunkerAnswered
  /\ Len(raw_text) > 1
  /\ IsBlank(raw_text)
  /\ chunkResponse.total_chunks = 0

\* The properties of C19 for a chunk list of the handler.
WellShaped(list) ==
  /\ \A i \in 1..Len(list) :
       /\ list[i].id = << document_type, "_chunk_", i - 1 >>
       /\ list[i].start_char < list[i].end_char
       /\ list[i].end_char - list[i].start_char <= 500
       /\ list[i].text = SubSeq(cleanedText, list[i].start_char + 1,
                                list[i].end_char)
       /\ Len(list[i].text) = list[i].end_char - list[i].start_char
  /\ \A i, j \in 1..Len(list) : list[i].id = list[j].id => i = j

\* C19: chunk identity and shape.  Within one invocation the i-th chunk
\* (0-based) has the id {document_type}_chunk_{i}, ids are pairwise distinct,
\* every chunk has start_char < end_char and end_char - start_char <= 500,
\* and its text is the cleaned text's substring [start_char, end_char).
C19_ChunkIdentityAndShape ==
  /\ WellShaped(chunks)
  /\ ChunkerAnswered => WellShaped(Emitted)

\* C19 witness: three or more chunks, one of them shorter than the window,
\* have been answered.
C19_Witness ==
  /\ ChunkerAnswered
  /\ Len(Emitted) >= 3
  /\ Emitted[3].id = << document_type, "_chunk_", 2 >>
  /\ Emitted[Len(Emitted)].end_char - Emitted[Len(Emitted)].start_char < 500

\* C20: chunker idempotence.  For every raw text, feeding the chunker's
\* cleaned text back into the chunker with the same document_type yields a
\* chunk sequence identical to the first one in ids, texts, start_char and
\* end_char.
C20_ChunkerIdempotence ==
  (previousRuns # << >> /\ ChunkerAnswered) =>
    LET first == previousRuns[1].response.chunks
    IN  /\ Len(Emitted) = Len(first)
        /\ \A i \in 1..Len(first) :
             /\ Emitted[i].id = first[i].id
             /\ Emitted[i].text = first[i].text
             /\ Emitted[i].start_char = first[i].start_char
             /\ Emitted[i].end_char = first[i].end_char

\* C20 witness: the second run has answered with three chunks for a first
\* raw text that the cleaning changed.
C20_Witness ==
  /\ previousRuns # << >>
  /\ ChunkerAnswered
  /\ previousRuns[1].raw_text = DirtyText(1000)
  /\ raw_text # previousRuns[1].raw_text
  /\ Len(Emitted) = 3

\* C25: chunker termination.  For every input text the chunking loop
\* terminates: the handler answers, and every iteration of the loop, taken
\* while the start position is below the cleaned text's length, raises the
\* start position by 400.
C25_ChunkerTermination ==
  /\ <>(chunkPc = "done")
  /\ [][(chunkPc = "loop" /\ chunks' # chunks) =>
          /\ startPos < Len(cleanedText)
          /\ startPos' = startPos + 400
          /\ Len(cleanedText) - startPos' < Len(cleanedText) - startPos]_vars

\* C25 witness: the loop has ended after four iterations, the start
\* position having passed the cleaned text's length.
C25_Witness ==
  /\ chunkPc = "done"
  /\ chunkId = 4
  /\ startPos = 1600
  /\ startPos >= Len(cleanedText)
  /\ Len(cleanedText) > 1200
  /\ raw_text = WordText(1300)

(***************************************************************************)
(* Claims about the lexical matcher                                        *)
(***************************************************************************)

LexAnswered == lexPc = "done" /\ lexResponse.status = 200
EmittedMatches == lexResponse.rule_matches
Range(list) == {list[k] : k \in 1..Len(list)}
HasText(k) == lexChunks[k].text # Null

\* The text of length n at the 0-based position of a text.
TextAt(text, position, n) == SubSeq(text, position + 1, position + n)

\* The document of the example: "QAR 5,000,000" in chunk 0 only, "AML policy"
\* in chunk 1 only.
ExampleDocument ==
  Placed(DocLen, {[at |-> 10, phrase |-> QarAmount],
                  [at |-> 600, phrase |-> AmlPolicy]})

\* C14: absolute match position.  Every RuleMatch emitted for a chunk has
\* position = the chunk's start_char + the match's offset inside the chunk
\* text, so the matched text stands at that position in the cleaned
\* document; for the two-chunk document with a capital amount in chunk 0 and
\* AML vocabulary in chunk 1, a capital_amount match is emitted at chunk 0's
\* absolute offset and a separate aml_kyc match at an offset inside chunk 1.
C14_AbsoluteMatchPosition ==
  LexAnswered =>
    /\ \A m \in Range(EmittedMatches) :
         /\ \E k \in 1..Len(lexChunks) :
              LET offset == m.position - lexChunks[k].start_char
              IN  /\ offset >= 0
                  /\ offset + Len(m.matched_text) <= Len(lexChunks[k].text)
                  /\ TextAt(lexChunks[k].text, offset, Len(m.matched_text))
                       = m.matched_text
         /\ m.position + Len(m.matched_text) <= Len(lexDocument)
         /\ TextAt(lexDocument, m.position, Len(m.matched_text))
              = m.matched_text
    /\ lexDocument = ExampleDocument =>
         /\ Len(lexChunks) = 2
         /\ \E m \in Range(EmittedMatches) :
              /\ m.rule_type = "capital_amount"
              /\ m.matched_text = QarAmount
              /\ m.position = lexChunks[1].start_char + 10
         /\ \E m \in Range(EmittedMatches) :
              /\ m.rule_type = "aml_kyc"
              /\ m.position = lexChunks[2].start_char + 200
              /\ m.position = 600

\* C14 witness: the example document has been answered with its two
\* matches.
C14_Witness ==
  /\ LexAnswered
  /\ lexDocument = ExampleDocument
  /\ Len(EmittedMatches) = 2
  /\ EmittedMatches[2].position > lexChunks[2].start_char

\* The number of occurrences of all categories in the chunks from the k-th.
RECURSIVE OccurrencesFrom(_)
OccurrencesFrom(k) ==
  IF k > Len(lexChunks) THEN 0
  ELSE Len(MatchAll(lexChunks[k].text, "capital_amounts"))
       + Len(MatchAll(lexChunks[k].text, "data_residency"))
       + Len(MatchAll(lexChunks[k].text, "aml_keywords"))
       + Len(MatchAll(lexChunks[k].text, "personnel"))
       + Len(MatchAll(lexChunks[k].text, "licensing"))
       + OccurrencesFrom(k + 1)

\* The number of emitted matches of a category at a position.
EmittedAt(ruleType, position) ==
  Cardinality({k \in 1..Len(EmittedMatches) :
                 /\ EmittedMatches[k].rule_type = ruleType
                 /\ EmittedMatches[k].position = position})

\* The occurrence m lies entirely inside the overlap of the chunks i, i+1.
InOverlap(m, i) ==
  /\ lexChunks[i + 1].start_char <= m.position
  /\ m.position + Len(m.matched_text) <= lexChunks[i].end_char

\* An occurrence of m's category in the chunk k begins elsewhere and
\* overlaps m.
Displaced(m, k) ==
  \E o \in Range(ChunkMatches(lexChunks[k])) :
    /\ o.rule_type = m.rule_type
    /\ o.position # m.position
    /\ o.position < m.position + Len(m.matched_text)
    /\ m.position < o.position + Len(o.matched_text)

\* C15, as stated: no deduplication.  The number of emitted matches is the
\* sum over chunks and categories of the occurrences in the chunk, and an
\* occurrence lying entirely inside the overlap of two consecutive chunks is
\* emitted twice, both with the same absolute position.
C15_NoDeduplication ==
  LexAnswered =>
    /\ Len(EmittedMatches) = OccurrencesFrom(1)
    /\ \A i \in 1..(Len(lexChunks) - 1) :
         \A m \in Range(ChunkMatches(lexChunks[i]))
                    \cup Range(ChunkMatches(lexChunks[i + 1])) :
           InOverlap(m, i) => EmittedAt(m.rule_type, m.position) >= 2

\* C15, amended: the number of emitted matches is the sum over chunks and
\* categories of the occurrences in the chunk, and an occurrence of one chunk
\* lying entirely inside its overlap with the next or the previous chunk is
\* emitted twice with the same absolute position unless the scan of the
\* other chunk found an occurrence of the same category that begins
\* elsewhere and overlaps it.
C15_NoDeduplicationAmended ==
  LexAnswered =>
    /\ Len(EmittedMatches) = OccurrencesFrom(1)
    /\ lexResponse.total_matches = OccurrencesFrom(1)
    /\ \A i \in 1..(Len(lexChunks) - 1) :
         /\ \A m \in Range(ChunkMatches(lexChunks[i])) :
              (InOverlap(m, i) /\ ~Displaced(m, i + 1))
                => EmittedAt(m.rule_type, m.position) >= 2
         /\ \A m \in Range(ChunkMatches(lexChunks[i + 1])) :
              (InOverlap(m, i) /\ ~Displaced(m, i))
                => EmittedAt(m.rule_type, m.position) >= 2

\* C15 witness: a capital amount inside the overlap of the two chunks has
\* been emitted twice at its position in the document.
C15_Witness ==
  /\ LexAnswered
  /\ lexDocument = Placed(DocLen, {[at |-> 420, phrase |-> QarAmount]})
  /\ Len(EmittedMatches) = 2
  /\ EmittedMatches[1].position = 420
  /\ EmittedMatches[2].position = 420

\* C16: the lexical matcher fails fast.  If any chunk of the input lacks a
\* text, the matcher answers with an error and emits no rule matches at all,
\* even for valid chunks that precede the malformed one; if no pattern
\* matches in any chunk it succeeds with an empty match sequence.
C16_LexFailFast ==
  lexPc = "done" =>
    /\ (\E k \in 1..Len(lexChunks) : ~HasText(k)) =>
         /\ lexResponse.status = 500
         /\ "rule_matches" \notin DOMAIN lexResponse
         /\ "total_matches" \notin DOMAIN lexResponse
    /\ (\A k \in 1..Len(lexChunks) :
          HasText(k) /\ ChunkMatches(lexChunks[k]) = << >>) =>
         /\ lexResponse.status = 200
         /\ lexResponse.rule_matches = << >>
         /\ lexResponse.total_matches = 0

\* C16 witness: the second chunk lacks its text, the first chunk's matches
\* had been pushed, and the answer is the error.
C16_Witness ==
  /\ lexPc = "done"
  /\ Len(lexChunks) = 2
  /\ HasText(1)
  /\ ~HasText(2)
  /\ allMatches # << >>
  /\ lexResponse.status = 500

(***************************************************************************)
(* Claims about the status determination and the best-match scan           *)
(***************************************************************************)

SimOf(k, j) == cosineSimilarity(requirementEmbeddings[k], chunkEmbeddings[j])
\* Two numbers are equal.
RealEq(x, y) ==
  IsFinite(x) /\ IsFinite(y) /\ ~Greater(x, y) /\ ~Greater(y, x)
MatchAnswered == matchPc = "done" /\ matchResponse.status = 200

\* C5: lexical evidence never promotes out of missing.  Every emitted match
\* whose best similarity is <= 0.4 has status missing, whatever rule matches
\* list its requirement id.
C5_NoPromotionOutOfMissing ==
  \A k \in 1..Len(matches) :
    ~Greater(matches[k].similarity_score, partialThreshold) =>
       matches[k].status = "missing"

\* C5 witness: a requirement with a positive best similarity of at most 0.4
\* that a rule match lists has been emitted as missing.
C5_Witness ==
  \E k \in 1..Len(matches) :
    /\ Greater(matches[k].similarity_score, Zero)
    /\ ~Greater(matches[k].similarity_score, partialThreshold)
    /\ HasRuleMatch(rule_matches, matches[k].requirement_id)
    /\ matches[k].status = "missing"

\* Chunk j is the first chunk with the greatest similarity to requirement k,
\* and the match m reports it with that similarity.
ReportsFirstGreatest(k, m, j) ==
  /\ matchChunks[j].id = m.chunk_id
  /\ \A j2 \in 1..Len(matchChunks) : ~Greater(SimOf(k, j2), SimOf(k, j))
  /\ \A j2 \in 1..(j - 1) : ~RealEq(SimOf(k, j2), SimOf(k, j))
  /\ RealEq(m.similarity_score, SimOf(k, j))

\* A vector of norm 0.
IsZeroVector(v) == \A i \in 1..Len(v) : v[i] = 0

\* C6 as stated: for every requirement and every non-empty chunk list the
\* reported chunk is the first chunk whose similarity is the greatest over
\* all chunks, and similarity_score is that greatest score.  It is stated
\* here for the chunk lists without a zero-norm embedding only, where every
\* similarity is a number and the NaN of C7 plays no part.
C6_BestMatchAsStated ==
  (/\ MatchAnswered
   /\ Len(matchChunks) > 0
   /\ \A j \in 1..Len(matchChunks) : ~IsZeroVector(chunkEmbeddings[j])) =>
    \A k \in 1..Len(requirementIds) :
      \E j \in 1..Len(matchChunks) :
        ReportsFirstGreatest(k, matchResponse.semantic_matches[k], j)

\* C6 as amended: when some chunk's similarity to the requirement is
\* strictly greater than 0, the reported chunk is the first chunk whose
\* similarity is the greatest and similarity_score is that score; when no
\* chunk's similarity is greater than 0, chunk_id is the empty string and
\* similarity_score is 0.
C6_BestMatchAmended ==
  MatchAnswered =>
    \A k \in 1..Len(requirementIds) :
      LET m == matchResponse.semantic_matches[k]
      IN  IF \E j \in 1..Len(matchChunks) : Greater(SimOf(k, j), Zero)
            THEN \E j \in 1..Len(matchChunks) : ReportsFirstGreatest(k, m, j)
            ELSE m.chunk_id = EmptyString /\ m.similarity_score = Zero

\* C6 witness: two chunks tie at the greatest, positive similarity to a
\* requirement, and the first of them is the one reported.
C6_Witness ==
  /\ MatchAnswered
  /\ \E k \in 1..Len(requirementIds) :
       \E j1 \in 1..Len(matchChunks) : \E j2 \in (j1 + 1)..Len(matchChunks) :
         /\ Greater(SimOf(k, j1), Zero)
         /\ RealEq(SimOf(k, j1), SimOf(k, j2))
         /\ matchResponse.semantic_matches[k].chunk_id = matchChunks[j1].id

\* C7: zero-vector safety.  The cosine similarity computed against a
\* zero-norm chunk embedding is 0, never NaN or infinite, and every emitted
\* record carries a numeric similarity_score.
C7_ZeroVectorSafety ==
  /\ \A j \in 1..Len(similarity) :
       IsZeroVector(chunkEmbeddings[j]) =>
         (IsFinite(similarity[j]) /\ similarity[j].num = 0)
  /\ MatchAnswered =>
       \A k \in 1..Len(matchResponse.semantic_matches) :
         IsFinite(matchResponse.semantic_matches[k].similarity_score)

\* C13: one record per requirement.  Every run of semantic matching that
\* answers emits exactly one SemanticMatch per requirement id of the
\* catalogue, none missing and none duplicated, in catalogue order, for any
\* chunk list including the empty one; while the loop runs the records
\* emitted so far are those of the first requirements.
C13_OneRecordPerRequirement ==
  /\ Len(matches) = reqIndex
  /\ \A k \in 1..Len(matches) : matches[k].requirement_id = requirementIds[k]
  /\ MatchAnswered =>
       LET emitted == matchResponse.semantic_matches
       IN  /\ Len(emitted) = Len(requirementIds)
           /\ matchResponse.total_requirements = Len(requirementIds)
           /\ \A k \in 1..Len(emitted) :
                emitted[k].requirement_id = requirementIds[k]
           /\ \A k1, k2 \in 1..Len(emitted) :
                emitted[k1].requirement_id = emitted[k2].requirement_id => k1 = k2

\* C13 witness: a run over the empty chunk list has answered with a record
\* for the last requirement of the catalogue.
C13_Witness ==
  /\ MatchAnswered
  /\ Len(matchChunks) = 0
  /\ matchResponse.semantic_matches[Len(requirementIds)].requirement_id =
       "key_personnel"

\* C22: the documented status logic.  A requirement is compliant exactly
\* when its best similarity is > 0.7, or its best similarity is > 0.5 and it
\* has rule-based matches; so a requirement with a similarity in (0.4, 0.5]
\* that has rule matches is partial, not compliant.
C22_DocumentedStatusLogic ==
  clsPc = "done" =>
    /\ clsStatus = "compliant" <=>
         (clsScore > 70 \/ (clsScore > 50 /\ clsHasRuleMatch))
    /\ (40 < clsScore /\ clsScore <= 50 /\ clsHasRuleMatch) =>
         clsStatus = "partial"

Rank(status) ==
  CASE status = "missing" -> 0
    [] status = "partial" -> 1
    [] status = "compliant" -> 2

\* C27: classifier monotonicity.  For the order missing < partial <
\* compliant, raising the best similarity with the lexical flag fixed never
\* lowers the status, and switching the lexical flag from false to true with
\* the similarity fixed never lowers the status.
C27_ClassifierMonotonicity ==
  clsPc = "done" =>
    /\ \A higher \in clsScore..100 :
         Rank(DetermineStatus(Hundredths(higher), clsHasRuleMatch))
           >= Rank(clsStatus)
    /\ ~clsHasRuleMatch =>
         Rank(DetermineStatus(Hundredths(clsScore), TRUE)) >= Rank(clsStatus)

\* C27 witness: a similarity of 0.45 without a rule match has been
\* classified partial; with the flag or with a higher similarity the status
\* rises.
C27_Witness ==
  /\ clsPc = "done"
  /\ clsScore = 45
  /\ ~clsHasRuleMatch
  /\ clsStatus = "partial"
  /\ DetermineStatus(Hundredths(clsScore), TRUE) = "compliant"
  /\ DetermineStatus(Hundredths(71), clsHasRuleMatch) = "compliant"

\* Some chunk of the request has a similarity > 0 to requirement k.
AnyPositive(k) ==
  \E j \in 1..Len(matchChunks) :
    Greater(cosineSimilarity(requirementEmbeddings[k], chunkEmbeddings[j]), Zero)

\* C26: non-negative best score and empty chunk id.  Every emitted semantic
\* match has similarity_score >= 0; its chunk_id is the empty string and its
\* score is 0 exactly when no chunk has a similarity strictly greater than 0
\* (the empty chunk list included), and then its status is missing whatever
\* the rule matches are.
C26_NonNegativeBestScore ==
  MatchAnswered =>
    \A k \in 1..Len(matchResponse.semantic_matches) :
      LET m == matchResponse.semantic_matches[k]
      IN  /\ IsFinite(m.similarity_score)
          /\ m.similarity_score.num >= 0
          /\ (m.chunk_id = EmptyString) <=> ~AnyPositive(k)
          /\ (m.similarity_score.num = 0) <=> ~AnyPositive(k)
          /\ ~AnyPositive(k) =>
               /\ m.status = "missing"
               /\ m.matched_text = EmptyString

\* C26 witness: the one chunk of the request is at a right angle to the
\* first requirement, which has a rule match and is reported missing with
\* an empty chunk id.
C26_Witness ==
  /\ MatchAnswered
  /\ Len(matchChunks) = 1
  /\ matchChunks[1].text = << 0, 1 >>
  /\ HasRuleMatch(rule_matches, requirementIds[1])
  /\ matchResponse.semantic_matches[1].chunk_id = EmptyString
  /\ matchResponse.semantic_matches[1].status = "missing"

ScoreAnswered == scorePc = "done" /\ scoreResponse.status = 200

\* C8: an empty requirement set is an error.  Invoked with zero semantic
\* matches (so max_score is 0) the scoring engine answers with an error
\* outcome and returns no overall_score.
C8_EmptyInputIsError ==
  (scorePc = "done" /\ scoreAbsent = {} /\ Len(semantic_matches) = 0) =>
    scoreResponse.status # 200

\* The critical requirements as ARCHITECTURE.md lists them.
DocumentedCritical ==
  {"minimum_capital_psp", "minimum_capital_p2p", "minimum_capital_wealth",
   "data_residency", "primary_data_environment", "aml_policy"}

\* C9: critical weights.  Every scored requirement whose id is on the
\* documented critical list gets weight 2.0 and is_critical true; every other
\* requirement gets weight 1.0 and is_critical false.
C9_CriticalWeights ==
  \A k \in 1..Len(scoredRequirements) :
    LET r == scoredRequirements[k]
    IN  IF r.requirement_id \in DocumentedCritical
          THEN r.weight = 2 /\ r.is_critical
          ELSE r.weight = 1 /\ ~r.is_critical

\* C10: the scoring formula.  For every non-empty list of classified
\* requirements points are 100 for compliant, 50 for partial and 0 for
\* missing, weighted_points = points * weight, total_score is the sum of the
\* weighted points, max_score the sum of 100 * weight, and overall_score is
\* 100 * total_score / max_score rounded to the nearest integer; one critical
\* compliant plus one standard partial requirement give 250, 300 and 83.
C10_ScoringFormula ==
  (ScoreAnswered /\ Len(semantic_matches) > 0) =>
    LET R == scoreResponse.requirements
        total == scoreResponse.total_score
        max == scoreResponse.max_score
        overall == scoreResponse.overall_score
    IN  /\ Len(R) = Len(semantic_matches)
        /\ \A k \in 1..Len(R) :
             /\ R[k].points = (CASE semantic_matches[k].status = "compliant" -> 100
                                 [] semantic_matches[k].status = "partial" -> 50
                                 [] semantic_matches[k].status = "missing" -> 0)
             /\ R[k].weight = (IF R[k].is_critical THEN 2 ELSE 1)
             /\ R[k].weighted_points = R[k].points * R[k].weight
        /\ total = SeqSum([k \in 1..Len(R) |-> R[k].weighted_points])
        /\ max = SeqSum([k \in 1..Len(R) |-> 100 * R[k].weight])
        /\ overall.den2 = 1
        /\ (2 * overall.num - 1) * max <= 200 * total
        /\ 200 * total < (2 * overall.num + 1) * max
        /\ (/\ Len(R) = 2
            /\ R[1].is_critical /\ R[1].status = "compliant"
            /\ ~R[2].is_critical /\ R[2].status = "partial") =>
             (total = 250 /\ max = 300 /\ overall = Number(83))

\* C10 witness: one critical compliant and one standard partial requirement
\* have been scored 83.
C10_Witness ==
  /\ ScoreAnswered
  /\ semantic_matches =
       << [requirement_id |-> "minimum_capital_psp", status |-> "compliant"],
          [requirement_id |-> "licensing_category", status |-> "partial"] >>
  /\ scoreResponse.overall_score = Number(83)

\* C11: score range.  For every list of classified requirements the scoring
\* engine accepts, overall_score is an integer with 0 <= overall_score <= 100
\* and 0 <= total_score <= max_score.
C11_ScoreRange ==
  ScoreAnswered =>
    /\ IsFinite(scoreResponse.overall_score)
    /\ scoreResponse.overall_score.den2 = 1
    /\ 0 <= scoreResponse.overall_score.num
    /\ scoreResponse.overall_score.num <= 100
    /\ 0 <= scoreResponse.total_score
    /\ scoreResponse.total_score <= scoreResponse.max_score

\* The number of requirements of the request with a status.
InputsWithStatus(status) ==
  Cardinality({k \in 1..Len(semantic_matches) :
                 semantic_matches[k].status = status})

\* C12: summary tallies.  summary.compliant, summary.partial and
\* summary.missing are the numbers of scored requirements with that status,
\* summary.total is the number of requirements processed, and
\* compliant + partial + missing = total.
C12_SummaryTallies ==
  ScoreAnswered =>
    LET summary == scoreResponse.summary
    IN  /\ summary.compliant = InputsWithStatus("compliant")
        /\ summary.partial = InputsWithStatus("partial")
        /\ summary.missing = InputsWithStatus("missing")
        /\ summary.total = Len(semantic_matches)
        /\ summary.total = Len(scoreResponse.requirements)
        /\ summary.compliant + summary.partial + summary.missing = summary.total

\* C12 witness: two requirements with different statuses have been tallied.
C12_Witness ==
  /\ ScoreAnswered
  /\ scoreResponse.summary.total = 2
  /\ scoreResponse.summary.compliant = 1
  /\ scoreResponse.summary.missing = 1

Upgraded(status) == IF status = "missing" THEN "partial" ELSE "compliant"

\* The sums of lines 39-40 for a list of classified requirements.
TotalOf(list) == SeqSum([k \in 1..Len(list) |-> ScoreOne(list[k]).weighted_points])
MaxOf(list) == SeqSum([k \in 1..Len(list) |-> 100 * ScoreOne(list[k]).weight])

\* C28: scoring monotonicity.  For any non-empty list of classified
\* requirements, upgrading the status of one requirement (missing to
\* partial, or partial to compliant) and leaving the others unchanged never
\* decreases total_score or overall_score and leaves max_score unchanged;
\* upgrading a critical requirement raises total_score by twice what the
\* same upgrade of a standard requirement does.
C28_ScoringMonotonicity ==
  (ScoreAnswered /\ Len(semantic_matches) > 0) =>
    \A k \in 1..Len(semantic_matches) :
      LET from == semantic_matches[k].status
          list == [semantic_matches EXCEPT ![k].status = Upgraded(from)]
          standardGain == Points(Upgraded(from)) - Points(from)
          gain == TotalOf(list) - scoreResponse.total_score
      IN  from # "compliant" =>
            /\ gain >= 0
            /\ standardGain = 50
            /\ gain = IF Includes(CRITICAL_REQUIREMENTS,
                                  semantic_matches[k].requirement_id)
                        THEN 2 * standardGain ELSE standardGain
            /\ MaxOf(list) = scoreResponse.max_score
            /\ MathRoundRatio(TotalOf(list), MaxOf(list)).num
                 >= scoreResponse.overall_score.num

\* C28 witness: a list of a partial critical requirement and a missing
\* standard one has been scored.
C28_Witness ==
  /\ ScoreAnswered
  /\ Len(semantic_matches) = 2
  /\ semantic_matches[1] = [requirement_id |-> "aml_policy", status |-> "partial"]
  /\ semantic_matches[2] = [requirement_id |-> "key_personnel", status |-> "missing"]
  /\ scoreResponse.total_score = 100
  /\ scoreResponse.max_score = 300
(***************************************************************************)
(* Claims about concurrent invocations                                     *)
(***************************************************************************)

\* The response of an invocation that runs alone from the locals l.
RECURSIVE RunAlone(_, _)
RunAlone(stage, l) ==
  IF l.pc = "done" THEN l.response ELSE RunAlone(stage, Step(stage, l))

\* C23: re-entrancy.  The chunker, the lexical matcher, the similarity and
\* classifier stage and the scoring engine keep no state between
\* invocations: in every interleaving of two concurrent invocations of a
\* stage each invocation returns exactly what it returns when run alone on
\* its own input, and the accumulators of one scoring request are never
\* affected by the other request.
C23_Reentrancy ==
  \A i \in 1..Len(invocations) :
    /\ invocations[i].pc = "done" =>
         invocations[i].response =
           RunAlone(concStage, Fresh(concStage, invocations[i].request))
    /\ (concStage = "scoring" /\ invocations[i].pc = "map") =>
         /\ invocations[i].totalScore =
              SeqSum([k \in 1..Len(invocations[i].scoredRequirements) |->
                        invocations[i].scoredRequirements[k].weighted_points])
         /\ invocations[i].maxScore =
              SeqSum([k \in 1..Len(invocations[i].scoredRequirements) |->
                        100 * invocations[i].scoredRequirements[k].weight])

\* C23 witness: two scoring requests of two requirements each have both
\* been answered, with different totals.
C23_Witness ==
  /\ concStage = "scoring"
  /\ invocations[1].pc = "done"
  /\ invocations[2].pc = "done"
  /\ Len(invocations[1].request.semantic_matches) = 2
  /\ Len(invocations[2].request.semantic_matches) = 2
  /\ invocations[1].response.total_score = 50
  /\ invocations[2].response.total_score = 200
(***************************************************************************)
(* Claims about the Dashboard                                              *)
(***************************************************************************)

\* C24: pipeline ordering.  In one analysis run the stages are invoked in
\* the order extract-pdf, preprocess-chunks, rule-based-checks,
\* semantic-matching, score-compliance, generate-report; a stage is invoked
\* only after every call of the stage before it has settled; and each stage
\* is given the output of the stage before it: the chunker each extracted
\* text, the lexical matcher the chunks of all documents in document order,
\* semantic matching the same chunks and the rule matches, scoring the
\* semantic matches, the report the scoring result.
C24_PipelineOrdering ==
  LET n == Len(dashCalls)
      extract == CallsOf(dashCalls, "extract-pdf")
      chunk == CallsOf(dashCalls, "preprocess-chunks")
      rules == CallsOf(dashCalls, "rule-based-checks")
      semantic == CallsOf(dashCalls, "semantic-matching")
      score == CallsOf(dashCalls, "score-compliance")
      report == CallsOf(dashCalls, "generate-report")
  IN  /\ \A i, j \in 1..n :
           i < j => StageIndex(dashCalls[i].fn) <= StageIndex(dashCalls[j].fn)
      /\ \A j \in 1..n :
           StageIndex(dashCalls[j].fn) > 1 =>
             \E i \in 1..n :
               StageIndex(dashCalls[i].fn) = StageIndex(dashCalls[j].fn) - 1
      /\ \A i, j \in 1..n :
           StageIndex(dashCalls[i].fn) < StageIndex(dashCalls[j].fn) =>
             dashCalls[i].outcome \in {"ok", "nodata"}
      /\ Len(extract) \in {0, 3} /\ Len(chunk) <= 3
      /\ Len(rules) <= 1 /\ Len(semantic) <= 1
      /\ Len(score) <= 1 /\ Len(report) <= 1
      /\ \A k \in 1..Len(chunk) :
           chunk[k].body = [raw_text |-> extract[k].data.raw_text,
                            document_type |-> extract[k].data.document_type]
      /\ \A k \in 1..Len(rules) :
           /\ Len(chunk) = 3
           /\ rules[k].body =
                [chunks |-> chunk[1].data.chunks \o chunk[2].data.chunks
                              \o chunk[3].data.chunks]
      /\ \A k \in 1..Len(semantic) :
           semantic[k].body = [chunks |-> rules[1].body.chunks,
                               rule_matches |-> rules[1].data.rule_matches]
      /\ \A k \in 1..Len(score) :
           score[k].body =
             [semantic_matches |-> semantic[1].data.semantic_matches]
      /\ \A k \in 1..Len(report) :
           report[k].body = [scoring_result |-> score[1].data]

\* C24 witness: a run has invoked all six stages, the lexical matcher and
\* semantic matching with the chunks of the second and the third document.
C24_Witness ==
  /\ Len(dashCalls) = 10
  /\ dashCalls[10].fn = "generate-report"
  /\ dashCalls[5].data.chunks # << >>
  /\ dashCalls[6].data.chunks # << >>
  /\ Len(dashCalls[8].body.chunks) = 2
  /\ dashCalls[8].body.rule_matches = << "aml_kyc" >>
  /\ dashCalls[9].body.semantic_matches = << "aml_policy" >>
  /\ results # NoResponse

\* C29: Dashboard failure handling.  When a stage of a run fails (a call
\* yields no data or throws) no later stage is invoked and results stays
\* null; results is non-null only after all six stages have completed.
C29_FailureStopsRun ==
  /\ \A i, j \in 1..Len(dashCalls) :
       dashCalls[i].outcome \in {"nodata", "throws"} =>
         StageIndex(dashCalls[j].fn) <= StageIndex(dashCalls[i].fn)
  /\ (\E i \in 1..Len(dashCalls) :
        dashCalls[i].outcome \in {"nodata", "throws"}) => results = NoResponse
  /\ results # NoResponse =>
       /\ Len(dashCalls) = 10
       /\ \A i \in 1..Len(dashCalls) : dashCalls[i].outcome = "ok"
(***************************************************************************)
(* Claims about the Index page                                             *)
(***************************************************************************)

\* The requests that settle in this step, and those that settle as failed.
SettledNow ==
  { i \in 1..Len(idxRequests) :
      /\ i <= Len(idxRequests')
      /\ idxRequests[i].outcome = "pending"
      /\ idxRequests'[i].outcome # "pending" }
FailedNow == { i \in SettledNow : idxRequests'[i].outcome # "ok" }

\* C30: Index evaluation leaves state intact on failure.  A call of
\* handleEvaluate with three blank texts makes no request and changes
\* neither isLoading nor result nor the texts, and a request is only ever
\* made with a text that is not blank; when the analyze-compliance call
\* fails the stored result stays what it was; and when an evaluation ends,
\* successful or failed, isLoading is false.
C30_EvaluateFrame ==
  [][ /\ (Len(idxOutcome') > Len(idxOutcome) /\ AllBlank(idxInputs)) =>
           UNCHANGED << idxInputs, isLoading, result, idxRequests >>
      /\ Len(idxRequests') > Len(idxRequests) =>
           /\ ~IsBlank(idxInputs.businessModel \o idxInputs.amlSecurity
                         \o idxInputs.techOperations)
           /\ idxRequests'[Len(idxRequests')].body = idxInputs
      /\ FailedNow # { } => result' = result
      /\ SettledNow # { } => isLoading' = FALSE ]_vars

\* C30 witness: a first evaluation stored a result, then the texts were
\* blanked and an evaluation returned at once, then an evaluation of new
\* texts failed, and the first result is still stored.
C30_Witness ==
  /\ idxOutcome = << "invoked", "returned", "invoked" >>
  /\ Len(idxRequests) = 2
  /\ idxRequests[1].outcome = "ok"
  /\ idxRequests[2].outcome = "error"
  /\ result = idxRequests[1].data
  /\ ~isLoading
=============================================================================
